---- MODULE Spec2Model ----
(***************************************************************************)
(* Two-pass sequence generation of the LinkedIn sequence generator:        *)
(* the orchestrator generateSequence (services/sequence-generator), the    *)
(* model-call executors callOpenAI (hosted ai.service) and callOllama      *)
(* (self-hosted ai.service), and the three tables they write               *)
(* (message_sequences, sequence_messages, ai_generations).                 *)
(*                                                                         *)
(* One generation request is followed from its arrival to the point where  *)
(* generateSequence returns or throws.  The language model, the request    *)
(* and the linked ai.service variant are the environment.                  *)
(*                                                                         *)
(* The pure functions of the services (getTier, translateTov,              *)
(* getMessageTypes, parseJSONFromLLM) are operators; SpecFunctions and     *)
(* SpecParser apply them to arguments drawn from bounded sets.             *)
(*                                                                         *)
(* Nullable columns and optional values are sequences of length 0 or 1:    *)
(* <<>> is null/undefined, <<v>> is the value v.                           *)
(* Columns no modelled code reads back (id of ledger rows, raw_prompt,     *)
(* latency_ms, token counts, error_message of ledger rows, created_at)     *)
(* are left out of the rows.                                               *)
(***************************************************************************)
EXTENDS Integers, Sequences, FiniteSets, TLC

\* ---------------------------------------------------------------- bounds
MaxSeqLen == 2     \* requested sequence_length ranges over 1..MaxSeqLen
MaxMsgs == 2       \* the model returns messages arrays of 0..MaxMsgs elements
MaxStepNo == 2     \* step_number values the model supplies: 1..MaxStepNo

\* ------------------------------------------------------ program constants
MAX_RETRIES == 3

OLLAMA_MODEL == "llama3.2"

Variants == {"hosted", "selfhosted"}

PRIMARY_MODEL(v) == IF v = "hosted" THEN "gpt-4o-mini" ELSE OLLAMA_MODEL

FALLBACK_MODEL(v) == IF v = "hosted" THEN "gpt-4o" ELSE OLLAMA_MODEL

Phases == {"prospect_analysis", "sequence_generation"}

\* Errors the model-call capability raises (timeout, upstream error).
ModelErrors == {"Request timed out.", "500 Internal Server Error"}

\* ------------------------------------------------------------ JSON values
\* A parsed JSON value, as far as the orchestrator looks into it:
\*   t        "null" | "number" | "object"
\*   m        state of the property `messages`: "absent" | "notarray" | "array"
\*   messages the elements of the array (when m = "array")
\*   overall_confidence  the property of that name, if any
\*   fields   the properties that normalizeProspectAnalysis reads, each by
\*            what it holds: professional_summary "absent" | "number" |
\*            "string"; key_interests (standing for the four array
\*            properties) "absent" | "string" | "array"; seniority_level
\*            "absent" | "number" | the string itself
\* An object without any of these properties.
NoFields ==
  [professional_summary |-> "absent", key_interests |-> "absent", seniority_level |-> "absent"]

JNull ==
  [t |-> "null", m |-> "absent", messages |-> <<>>, overall_confidence |-> <<>>,
   fields |-> NoFields]

JNumber ==
  [t |-> "number", m |-> "absent", messages |-> <<>>, overall_confidence |-> <<>>,
   fields |-> NoFields]

JObject(mstate, msgs, conf) ==
  [t |-> "object", m |-> mstate, messages |-> msgs, overall_confidence |-> conf,
   fields |-> NoFields]

\* An object with the properties of a prospect analysis.
JAnalysis(summary, interests, seniority) ==
  [t |-> "object", m |-> "absent", messages |-> <<>>, overall_confidence |-> <<>>,
   fields |-> [professional_summary |-> summary, key_interests |-> interests,
               seniority_level |-> seniority]]

\* The seniority levels the prompt of pass 1 asks for.
SeniorityLevels == {"entry", "mid", "senior", "executive"}

\* getMessageTypes: the vocabulary the prompt of pass 2 asks for.
MessageTypeList ==
  <<"connection_request", "follow_up_value", "case_study", "social_proof", "direct_ask", "breakup">>

\* Faulty variant: no special case for a 3-step sequence.
getMessageTypes_sliceOnly(length) ==
  IF length <= 1 THEN <<"connection_request">>
  ELSE IF length = 2 THEN <<"connection_request", "follow_up_value">>
  ELSE SubSeq(MessageTypeList, 1, IF length < Len(MessageTypeList) THEN length ELSE Len(MessageTypeList))

getMessageTypes(length) ==
  IF length <= 1 THEN <<"connection_request">>
  ELSE IF length = 2 THEN <<"connection_request", "follow_up_value">>
  ELSE IF length = 3 THEN <<"connection_request", "follow_up_value", "direct_ask">>
  ELSE SubSeq(MessageTypeList, 1, IF length < Len(MessageTypeList) THEN length ELSE Len(MessageTypeList))

\* An element of the messages array: a JSON null, or an object with the
\* step_number and the message_type the model supplied or omitted (the other
\* columns are supplied).
NullElement == [t |-> "null", step_number |-> <<>>, message_type |-> <<>>]

Element(s, ty) == [t |-> "object", step_number |-> s, message_type |-> ty]

Elements ==
  {NullElement} \cup {Element(s, <<"connection_request">>) : s \in {<<>>} \cup {<<n>> : n \in 1..MaxStepNo}}

RECURSIVE SeqsUpTo(_, _)
SeqsUpTo(S, n) ==
  IF n = 0 THEN {<<>>}
  ELSE LET shorter == SeqsUpTo(S, n - 1)
       IN shorter \cup {Append(q, e) : q \in {r \in shorter : Len(r) = n - 1}, e \in S}

AnalysisValues ==
  {JNull, JNumber, JObject("absent", <<>>, <<>>),
   JAnalysis("string", "array", "senior"), JAnalysis("number", "string", "guru")}

MessageValues ==
  {JNull, JObject("absent", <<>>, <<>>), JObject("notarray", <<>>, <<82>>)}
    \cup {JObject("array", ms, <<82>>) : ms \in SeqsUpTo(Elements, MaxMsgs)}

\* The pass-2 answers of the three-step scenario: an array of three objects
\* with steps 1, 2, 3, each with any message_type of the vocabulary or none.
ThreeStepValues ==
  LET tys == {<<>>} \cup {<<MessageTypeList[i]>> : i \in DOMAIN MessageTypeList}
  IN {JObject("array", <<Element(<<1>>, a), Element(<<2>>, b), Element(<<3>>, c)>>, <<82>>) :
        a \in tys, b \in tys, c \in tys}

\* ------------------------------------------------------------- raw texts
\* A raw response text is classified by how it wraps a JSON value:
\*   "plain"   the text is the JSON serialisation of value
\*   "fenced"  the serialisation inside a markdown code fence
\*   "garbage" prose that no recovery stage turns into JSON
Garbage == [wrap |-> "garbage", value |-> JNull]

Texts(vals) == {[wrap |-> w, value |-> v] : w \in {"plain", "fenced"}, v \in vals} \cup {Garbage}

\* What the model may answer in a phase: no content at all, or a text.
\* Pass 1 reads nothing of the parsed value, so one value per class is
\* enough, and two objects with the properties of an analysis.
Contents(p) ==
  {<<>>} \cup {<<t>> : t \in Texts(IF p = "prospect_analysis" THEN AnalysisValues ELSE MessageValues)}

ThreeStepContents(p) ==
  IF p = "prospect_analysis" THEN Contents(p) ELSE {<<t>> : t \in Texts(ThreeStepValues)}

JSONstringify(v) == [wrap |-> "plain", value |-> v]

\* Parsing yields <<v>> on success and <<>> when the parser throws.
JSONparse(text) == IF text.wrap = "plain" THEN <<text.value>> ELSE <<>>

\* parseJSONFromLLM: step 1 is the direct parse, step 2 strips a code fence;
\* prose without JSON fails every step.
parseJSONFromLLM(text) ==
  IF JSONparse(text) # <<>> THEN JSONparse(text)
  ELSE IF text.wrap = "fenced" THEN <<text.value>>
  ELSE <<>>

\* Faulty variant: unparseable text is replaced by an empty object.
ParseContent_defaulting(v, text) ==
  LET parsed == IF v = "hosted" THEN JSONparse(text) ELSE parseJSONFromLLM(text)
  IN IF parsed = <<>> THEN <<JObject("absent", <<>>, <<>>)>> ELSE parsed

ParseContent(v, text) == IF v = "hosted" THEN JSONparse(text) ELSE parseJSONFromLLM(text)

\* ---------------------------------------------------------------- errors
Message(text, retries, cause) == [text |-> text, retries |-> retries, cause |-> cause]

AppError(code, msg) == [name |-> "AppError", statusCode |-> code, message |-> msg]

TypeError(text) == [name |-> "TypeError", statusCode |-> 0, message |-> Message(text, 0, "")]

SqliteError(text) == [name |-> "SqliteError", statusCode |-> 0, message |-> Message(text, 0, "")]

\* `AI generation failed after ${MAX_RETRIES} retries: ${lastError?.message}`
ExhaustedError(lastError) ==
  AppError(502, Message("AI generation failed after N retries: cause", MAX_RETRIES, lastError))

InvalidJsonError(p) ==
  AppError(502, Message(IF p = "prospect_analysis"
                          THEN "AI returned invalid JSON for prospect analysis"
                          ELSE "AI returned invalid JSON for sequence generation", 0, ""))

\* ----------------------------------------------------------------- state
\* --------------------------------------------------------- tone translator
\* Tone values are numbers of [0, 1] with two decimals, held in hundredths.
TovGrid == {0, 30, 31, 70, 71, 100}

Tiers == {"low", "medium", "high"}

\* Faulty variant: the boundaries belong to the higher tier.
getTier_strict(value) ==
  IF value < 30 THEN "low"
  ELSE IF value < 70 THEN "medium"
  ELSE "high"

getTier(value) ==
  IF value <= 30 THEN "low"
  ELSE IF value <= 70 THEN "medium"
  ELSE "high"

formalityMap ==
  [low |-> "Use casual, conversational language. Contractions, colloquialisms, and an informal style are encouraged. Write as if messaging a peer.",
   medium |-> "Use a professional yet approachable tone. Some contractions are fine, but avoid slang. Strike a balance between formal and conversational.",
   high |-> "Use formal, polished language. Avoid contractions, slang, and overly casual expressions. Address the prospect respectfully and maintain a professional register throughout."]

warmthMap ==
  [low |-> "Keep the tone neutral and businesslike. Focus on facts and value rather than personal connection. Avoid excessive friendliness.",
   medium |-> "Maintain a moderately warm and personable tone. Show genuine interest in the prospect's work, but avoid being overly familiar or effusive.",
   high |-> "Be genuinely warm, empathetic, and personable. Show real interest in the prospect as a person. Use language that builds rapport and makes the reader feel valued."]

\* (the dash of the high tier is written in ASCII)
directnessMap ==
  [low |-> "Take an indirect, consultative approach. Lead with questions and curiosity rather than pitching. Let the value proposition emerge naturally through conversation.",
   medium |-> "Be moderately direct about the value proposition. State your purpose clearly but frame it as a mutual benefit rather than a hard sell.",
   high |-> "Be very direct and to-the-point. State the value proposition upfront. Minimize fluff - respect the prospect's time with clear, action-oriented language."]

humorMap ==
  [low |-> "Keep the tone serious and professional. Avoid humor or lighthearted remarks.",
   medium |-> "A light touch of wit is acceptable where natural, but don't force humor. Keep it professional.",
   high |-> "Incorporate tasteful humor and clever observations where appropriate. Use wit to make the message memorable, but never at the prospect's expense."]

enthusiasmMap ==
  [low |-> "Maintain a calm, measured tone. Avoid exclamation marks and overly excited language.",
   medium |-> "Show moderate enthusiasm about the opportunity. Be positive without being over-the-top.",
   high |-> "Show genuine excitement and energy. Convey passion about the opportunity and how it could help the prospect. Enthusiastic but credible."]

\* parts.join(sep)
RECURSIVE join(_, _)
join(parts, sep) ==
  IF parts = <<>> THEN ""
  ELSE IF Len(parts) = 1 THEN parts[1]
  ELSE parts[1] \o sep \o join(Tail(parts), sep)

\* TovParams: the optional properties are <<>> when undefined.
CustomTexts == {"", "Mention our upcoming webinar."}

\* One value of each tier, for the axes that are not swept over the grid.
TierSamples == {0, 31, 71}

TovParams ==
  [formality : TovGrid, warmth : TierSamples, directness : TierSamples,
   humor : {<<>>} \cup {<<v>> : v \in TierSamples},
   enthusiasm : {<<>>} \cup {<<v>> : v \in TierSamples},
   custom_instructions : {<<>>} \cup {<<c>> : c \in CustomTexts}]

\* Faulty variant: humor and enthusiasm are tested for truthiness, so that a
\* supplied 0 contributes nothing.
translateTov_truthy(params) ==
  join(<<formalityMap[getTier(params.formality)],
         warmthMap[getTier(params.warmth)],
         directnessMap[getTier(params.directness)]>>
       \o (IF params.humor # <<>> /\ params.humor # <<0>>
             THEN <<humorMap[getTier(params.humor[1])]>> ELSE <<>>)
       \o (IF params.enthusiasm # <<>> /\ params.enthusiasm # <<0>>
             THEN <<enthusiasmMap[getTier(params.enthusiasm[1])]>> ELSE <<>>)
       \o (IF params.custom_instructions # <<>> /\ params.custom_instructions # <<"">>
             THEN <<"Additional instructions: " \o params.custom_instructions[1]>> ELSE <<>>),
       "\n\n")

translateTov(params) ==
  join(<<formalityMap[getTier(params.formality)],
         warmthMap[getTier(params.warmth)],
         directnessMap[getTier(params.directness)]>>
       \o (IF params.humor # <<>>
             THEN <<humorMap[getTier(params.humor[1])]>> ELSE <<>>)
       \o (IF params.enthusiasm # <<>>
             THEN <<enthusiasmMap[getTier(params.enthusiasm[1])]>> ELSE <<>>)
       \o (IF params.custom_instructions # <<>> /\ params.custom_instructions # <<"">>
             THEN <<"Additional instructions: " \o params.custom_instructions[1]>> ELSE <<>>),
       "\n\n")

\* The sequence lengths getMessageTypes is applied to.
SequenceLengths == 0..8

\* ------------------------------------------------------- JSON recovery
\* A raw text is a sequence of tokens, each standing for the characters it
\* is written with: punctuation, the number 1, the double-quoted string "k",
\* the single-quoted 'k', blank and newline, a control character, the fence
\* of three backticks, the word json and a word of prose.
DQ == "\"k\""

SQ == "'k'"

FENCE == "<fence>"

CTRL == "<0x01>"

Whitespace == {" ", "\n"}

Literals == {"null", "true", "false"}

RECURSIVE skipWs(_, _)
skipWs(s, i) == IF i <= Len(s) /\ s[i] \in Whitespace THEN skipWs(s, i + 1) ELSE i

\* The end of the run of digits that starts at i (adjacent digits are one number).
RECURSIVE endOfNumber(_, _)
endOfNumber(s, i) == IF i <= Len(s) /\ s[i] = "1" THEN endOfNumber(s, i + 1) ELSE i

ParseFail == [ok |-> FALSE, val |-> <<>>, next |-> 0]

\* Values are held in canonical form: the tokens of their serialisation.
RECURSIVE separated(_)
separated(vals) ==
  IF vals = <<>> THEN <<>>
  ELSE IF Len(vals) = 1 THEN vals[1]
  ELSE vals[1] \o <<",">> \o separated(Tail(vals))

arrayOf(vals) == <<"[">> \o separated(vals) \o <<"]">>

objectOf(members) ==
  <<"{">> \o separated([i \in DOMAIN members |-> <<members[i].key, ":">> \o members[i].val]) \o <<"}">>

\* A repeated key keeps its first position and takes the last value.
putMember(members, key, val) ==
  IF \E i \in DOMAIN members : members[i].key = key
    THEN [i \in DOMAIN members |->
            IF members[i].key = key THEN [key |-> key, val |-> val] ELSE members[i]]
    ELSE Append(members, [key |-> key, val |-> val])

\* The JSON grammar, by recursive descent from position i.
RECURSIVE parseValue(_, _), parseElements(_, _, _), parseMembers(_, _, _)
parseValue(s, i0) ==
  LET i == skipWs(s, i0)
  IN IF i > Len(s) THEN ParseFail
     ELSE IF s[i] = "1"
       THEN [ok |-> TRUE, val |-> <<join(SubSeq(s, i, endOfNumber(s, i) - 1), "")>>,
             next |-> endOfNumber(s, i)]
     ELSE IF s[i] = DQ \/ s[i] \in Literals
       THEN [ok |-> TRUE, val |-> <<s[i]>>, next |-> i + 1]
     ELSE IF s[i] = "["
       THEN LET j == skipWs(s, i + 1)
            IN IF j <= Len(s) /\ s[j] = "]"
                 THEN [ok |-> TRUE, val |-> arrayOf(<<>>), next |-> j + 1]
                 ELSE parseElements(s, j, <<>>)
     ELSE IF s[i] = "{"
       THEN LET j == skipWs(s, i + 1)
            IN IF j <= Len(s) /\ s[j] = "}"
                 THEN [ok |-> TRUE, val |-> objectOf(<<>>), next |-> j + 1]
                 ELSE parseMembers(s, j, <<>>)
     ELSE ParseFail

parseElements(s, i, acc) ==
  LET v == parseValue(s, i)
      j == skipWs(s, v.next)
  IN IF ~v.ok \/ j > Len(s) THEN ParseFail
     ELSE IF s[j] = "," THEN parseElements(s, j + 1, Append(acc, v.val))
     ELSE IF s[j] = "]" THEN [ok |-> TRUE, val |-> arrayOf(Append(acc, v.val)), next |-> j + 1]
     ELSE ParseFail

parseMembers(s, i, acc) ==
  LET j == skipWs(s, i)
      k == skipWs(s, j + 1)
      v == parseValue(s, k + 1)
      m == skipWs(s, v.next)
  IN IF j > Len(s) \/ s[j] # DQ THEN ParseFail
     ELSE IF k > Len(s) \/ s[k] # ":" THEN ParseFail
     ELSE IF ~v.ok \/ m > Len(s) THEN ParseFail
     ELSE IF s[m] = "," THEN parseMembers(s, m + 1, putMember(acc, s[j], v.val))
     ELSE IF s[m] = "}"
       THEN [ok |-> TRUE, val |-> objectOf(putMember(acc, s[j], v.val)), next |-> m + 1]
     ELSE ParseFail

\* JSON.parse of a token text: <<value>>, or <<>> when it throws.
parseJSON(s) ==
  LET v == parseValue(s, 1)
  IN IF v.ok /\ skipWs(s, v.next) > Len(s) THEN <<v.val>> ELSE <<>>

\* String.prototype.trim
RECURSIVE trimEnd(_)
trimEnd(s) ==
  IF s # <<>> /\ s[Len(s)] \in Whitespace THEN trimEnd(SubSeq(s, 1, Len(s) - 1)) ELSE s

trim(s) == trimEnd(SubSeq(s, skipWs(s, 1), Len(s)))

indexOf(s, tok) ==
  IF \E i \in DOMAIN s : s[i] = tok
    THEN CHOOSE i \in DOMAIN s : s[i] = tok /\ \A j \in 1..(i - 1) : s[j] # tok
    ELSE 0

lastIndexOf(s, tok) ==
  IF \E i \in DOMAIN s : s[i] = tok
    THEN CHOOSE i \in DOMAIN s : s[i] = tok /\ \A j \in (i + 1)..Len(s) : s[j] # tok
    ELSE 0

\* Step 2, raw.match of the code-fence pattern: the match starts at the
\* first fence that has a fence after it and ends at the next fence; <<>>
\* when there is none, else <<captured group>>.
codeBlockMatch(raw) ==
  LET open == indexOf(raw, FENCE)
      rest == SubSeq(raw, open + 1, Len(raw))
      close == indexOf(rest, FENCE)
      inner == SubSeq(rest, 1, close - 1)
      body == IF inner # <<>> /\ inner[1] = "json" THEN Tail(inner) ELSE inner
  IN IF open = 0 \/ close = 0 THEN <<>>
     ELSE <<trimEnd(SubSeq(body, skipWs(body, 1), Len(body)))>>

\* Step 4, first replace: a comma followed, after optional white space, by a
\* closing bracket or brace is removed together with that white space.
RECURSIVE removeTrailingCommas(_)
removeTrailingCommas(s) ==
  IF s = <<>> THEN <<>>
  ELSE LET j == skipWs(s, 2)
       IN IF s[1] = "," /\ j <= Len(s) /\ s[j] \in {"]", "}"}
            THEN <<s[j]>> \o removeTrailingCommas(SubSeq(s, j + 1, Len(s)))
            ELSE <<s[1]>> \o removeTrailingCommas(Tail(s))

\* Step 4, second replace: control characters other than tab, newline and
\* carriage return are removed.
\* Faulty variant: words of prose are removed as well.
removeControlChars_andProse(s) == SelectSeq(s, LAMBDA tok : tok \notin {CTRL, "Sure", "Done"})

removeControlChars(s) == SelectSeq(s, LAMBDA tok : tok # CTRL)

\* Step 4, third replace: every single quote becomes a double quote.
fixSingleQuotes(s) == [i \in DOMAIN s |-> IF s[i] = SQ THEN DQ ELSE s[i]]

count(s, tok) == Len(SelectSeq(s, LAMBDA x : x = tok))

repeat(tok, n) == [i \in 1..(IF n > 0 THEN n ELSE 0) |-> tok]

\* Step 5, the two while loops: every ] that is owed, then every }.
closers(bracketCount, braceCount) ==
  repeat("]", bracketCount) \o repeat("}", braceCount)

\* The result of the cascade: whether a value was returned, the value, and
\* the step whose parse returned it.
Recovered(stage, parsed) == [ok |-> TRUE, val |-> parsed[1], stage |-> stage]

NotRecovered == [ok |-> FALSE, val |-> <<>>, stage |-> 0]

\* Steps 2 to 5 of parseJSONFromLLM.
extractAndRepair(raw) ==
  LET codeBlock == codeBlockMatch(raw)
      cleaned2 == IF codeBlock # <<>> THEN trim(codeBlock[1]) ELSE raw
      firstBrace == indexOf(raw, "{")
      lastBrace == lastIndexOf(raw, "}")
      braces == firstBrace # 0 /\ lastBrace > firstBrace
      cleaned3 == IF braces THEN SubSeq(raw, firstBrace, lastBrace) ELSE cleaned2
      cleaned4 == fixSingleQuotes(removeControlChars(removeTrailingCommas(cleaned3)))
      braceCount == count(cleaned4, "{") - count(cleaned4, "}")
      bracketCount == count(cleaned4, "[") - count(cleaned4, "]")
      patched == removeTrailingCommas(cleaned4 \o closers(bracketCount, braceCount))
  IN IF codeBlock # <<>> /\ parseJSON(cleaned2) # <<>> THEN Recovered(2, parseJSON(cleaned2))
     ELSE IF braces /\ parseJSON(cleaned3) # <<>> THEN Recovered(3, parseJSON(cleaned3))
     ELSE IF parseJSON(cleaned4) # <<>> THEN Recovered(4, parseJSON(cleaned4))
     ELSE IF parseJSON(patched) # <<>> THEN Recovered(5, parseJSON(patched))
     ELSE NotRecovered

\* Faulty variant: no direct parse before the extraction steps.
recover_noFastPath(raw) == extractAndRepair(raw)

\* parseJSONFromLLM on a token text, step 1 first.
recover(raw) ==
  IF parseJSON(raw) # <<>> THEN Recovered(1, parseJSON(raw)) ELSE extractAndRepair(raw)

\* The raw texts the parser is applied to: every text of up to MaxRawLen
\* tokens of JSON punctuation and scalars and a sample of longer JSON texts,
\* as they are, after or before a word of prose, and inside a fence.
MaxRawLen == 3

RawTokens == {"{", "}", "[", "]", ",", ":", "1", DQ, SQ}

LongerTexts ==
  {<<"[", "{", "}", "]">>,
   <<"{", DQ, ":", "1", "}">>,
   <<"{", DQ, ":", "[", "1", ",", "1", "]", "}">>,
   <<"{", DQ, ":", "{", DQ, ":", "null", "}", "}">>,
   <<"{", DQ, ":", "1", ",", DQ, ":", "[", "]", "}">>,
   <<"[", "{", DQ, ":", "1", "}", ",", "{", "}", "]">>,
   <<" ", "[", "1", " ", ",", "\n", "true", "]", "\n">>}

\* JSON objects of several nestings, and what is left of them when the
\* text stops before some or all of the closing brackets and braces at its end.
ObjectTexts ==
  {<<"{", "}">>,
   <<"{", DQ, ":", "1", "}">>,
   <<"{", DQ, ":", "[", "1", ",", "1", "]", "}">>,
   <<"{", DQ, ":", "{", DQ, ":", "null", "}", "}">>,
   <<"{", DQ, ":", "{", DQ, ":", "[", "1", "]", "}", "}">>,
   <<"{", DQ, ":", "[", "{", DQ, ":", "1", "}", "]", "}">>,
   <<"{", DQ, ":", "[", "{", "}", ",", "1", "]", "}">>,
   <<"{", DQ, ":", "[", "[", "{", "}", "]", "]", "}">>}

Truncations(text) ==
  {SubSeq(text, 1, n) : n \in {m \in 1..(Len(text) - 1) :
                                 \A i \in (m + 1)..Len(text) : text[i] \in {"]", "}"}}}

TruncatedObjects == UNION {Truncations(text) : text \in ObjectTexts}

RawTexts ==
  LET bodies == SeqsUpTo(RawTokens, MaxRawLen) \cup LongerTexts \cup TruncatedObjects
  IN bodies
       \cup {<<"Sure", " ">> \o b : b \in bodies}
       \cup {b \o <<"\n", "Done">> : b \in bodies}
       \cup {<<FENCE, "json", "\n">> \o b \o <<"\n", FENCE>> : b \in bodies}
       \cup {<<CTRL, FENCE>> \o b \o <<FENCE, " ">> : b \in bodies}

VARIABLES
  call,               \* a function applied on its own: its name and argument
  ret,                \* <<>> or <<what that function returned>>
  variant,            \* which ai.service the orchestrator is linked with
  input,              \* the GenerateSequenceInput of the request
  pc,                 \* position of generateSequence
  clock,              \* logical time of new Date().toISOString()
  message_sequences,  \* table message_sequences (rows, in insertion order)
  sequence_messages,  \* table sequence_messages
  ai_generations,     \* table ai_generations (the generation ledger)
  exPc,               \* position of the executor: idle | call | inflight | sleeping
  generationType,     \* executor argument: the phase
  model,              \* executor argument: the model of the current frame
  attempt,            \* executor loop counter
  lastError,          \* executor local: <<>> or <<message of the last failure>>
  content,            \* text returned by the executor
  analysis,           \* local `analysis` of generateSequence
  result,             \* local `result` of generateSequence
  msgIdx,             \* loop position in result.messages (1-based)
  error,              \* exception in flight towards the catch block
  outcome,            \* what the caller observed: pending | returned | threw
  invocations,        \* per phase: model calls issued
  outcomes,           \* per phase: what each model call did: "ok" | "fail"
  raised,             \* <<>> or <<the error the model-call capability raised last>>
  sleeps,             \* per phase: the backoff sleeps that elapsed
  response,           \* <<>> or <<what buildSequenceResponse gave the caller>>
  self,               \* the sequenceId of the generation that is running
  parked,             \* the locals of the generations that wait at an await
  prospects,          \* table prospects
  resolutions,        \* the calls of getOrFetchProspect: the URL, what it returned
  tov_configs,        \* table tov_configs
  tovConfig,          \* local `tovConfig` of generateSequence: <<>> or <<the row read>>
  tovInstructions,    \* <<>> or <<the instructions generateMessages was given>>
  tovStatus           \* status of the last answer of the tov-configs routes, 0 before any

functionVars == <<call, ret>>

schedulerVars == <<self, parked>>

prospectVars == <<prospects, resolutions>>

tovVars == <<tov_configs, tovConfig, tovInstructions, tovStatus>>

vars == <<functionVars, schedulerVars, prospectVars, tovVars, response, variant, input, pc, clock, message_sequences, sequence_messages, ai_generations,
          exPc, generationType, model, attempt, lastError, content, analysis, result,
          msgIdx, error, outcome, invocations, outcomes, raised, sleeps>>

\* const sequenceId = nanoid(): the id of the running generation.
sequenceId == self

TovChoices == {"inline", "id_found", "id_missing", "none"}

\* The tone configuration that is stored when the request arrives, the id
\* under which a request names it, and the one a request carries inline
\* (humor absent: it is stored with the default 0.3).
StoredTovId == "tov-1"

StoredTov ==
  [formality |-> 0, warmth |-> 31, directness |-> 71, humor |-> <<31>>,
   enthusiasm |-> <<71>>, custom_instructions |-> <<>>]

InlineTov ==
  [formality |-> 71, warmth |-> 0, directness |-> 31, humor |-> <<30>>,
   enthusiasm |-> <<31>>, custom_instructions |-> <<"Mention our upcoming webinar.">>]

\* select from tov_configs where id = ... : the rows with this id.
selectTov(tbl, id) == SelectSeq(tbl, LAMBDA r : r.id = id)

NoCall == [fn |-> "none", arg |-> <<>>]

InitWith(variants, inputs, calls) ==
  /\ call \in calls
  /\ ret = <<>>
  /\ variant \in variants
  /\ input \in inputs
  /\ pc = "resolve"
  /\ clock = 1
  /\ message_sequences = <<>>
  /\ sequence_messages = <<>>
  /\ ai_generations = <<>>
  /\ exPc = "idle"
  /\ generationType = "prospect_analysis"
  /\ model = PRIMARY_MODEL(variant)
  /\ attempt = 1
  /\ lastError = <<>>
  /\ content = <<>>
  /\ analysis = <<>>
  /\ result = <<>>
  /\ msgIdx = 1
  /\ error = <<>>
  /\ outcome = [kind |-> "pending", error |-> <<>>]
  /\ invocations = [p \in Phases |-> 0]
  /\ outcomes = [p \in Phases |-> <<>>]
  /\ raised = <<>>
  /\ sleeps = [p \in Phases |-> <<>>]
  /\ response = <<>>
  /\ prospects = <<>>
  /\ resolutions = <<>>
  /\ tov_configs = <<[id |-> StoredTovId, params |-> StoredTov]>>
  /\ tovConfig = <<>>
  /\ tovInstructions = <<>>
  /\ tovStatus = 0

\* One request is served and no other.
Alone ==
  /\ self = "seq-1"
  /\ parked = <<>>

Init ==
  /\ InitWith(Variants, [tov : TovChoices, sequence_length : 1..MaxSeqLen], {NoCall})
  /\ Alone

\* A request for three steps.
InitThreeStep ==
  /\ InitWith(Variants, [tov : TovChoices, sequence_length : {3}], {NoCall})
  /\ Alone


\* ------------------------------------------------------- table helpers
RowIn(tbl, id) == tbl[CHOOSE i \in DOMAIN tbl : tbl[i].id = id]

ExistsIn(tbl, id) == \E i \in DOMAIN tbl : tbl[i].id = id

Row(id) == RowIn(message_sequences, id)

RowExists(id) == ExistsIn(message_sequences, id)

\* The status of a Sequence; a Sequence that has no row yet is pending.
StatusIn(tbl, id) == IF ExistsIn(tbl, id) THEN RowIn(tbl, id).status ELSE "pending"

\* Faulty variant: the update without its where clause.
UpdateSequence_all(id, changes) ==
  [i \in DOMAIN message_sequences |->
     [c \in DOMAIN message_sequences[i] |->
        IF c \in DOMAIN changes THEN changes[c] ELSE message_sequences[i][c]]]

\* db.update(messageSequences).set(changes).where(eq(id, ...)):
\* changes maps each column that is set to its new value.
UpdateSequence(id, changes) ==
  [i \in DOMAIN message_sequences |->
     IF message_sequences[i].id = id
       THEN [c \in DOMAIN message_sequences[i] |->
               IF c \in DOMAIN changes THEN changes[c] ELSE message_sequences[i][c]]
       ELSE message_sequences[i]]

LedgerOf(id, p) ==
  SelectSeq(ai_generations, LAMBDA g : g.sequence_id = id /\ g.generation_type = p)

MessagesOf(id) == SelectSeq(sequence_messages, LAMBDA r : r.sequence_id = id)

\* ------------------------------------------------- orchestrator: pre-flight
\* Step 2 of generateSequence: resolve the tone configuration.  Both throws
\* are outside the try block and before the Sequence row is created.
\* Faulty variant: a request without any tone configuration is let through.
tovPreflightError_lenient(choice) ==
  IF choice = "id_missing"
    THEN <<AppError(404, Message("TOV config not found", 0, ""))>>
    ELSE <<>>

\* The error step 2 throws for a request, <<>> when it throws none.
tovPreflightError(choice) ==
  IF choice = "id_missing"
    THEN <<AppError(404, Message("TOV config not found", 0, ""))>>
    ELSE IF choice = "none"
      THEN <<AppError(400, Message("Either tov_config or tov_config_id must be provided", 0, ""))>>
      ELSE <<>>

ResolveTovConfig ==
  /\ pc = "resolve"
  /\ LET err == IF input.tov = "id_found" /\ selectTov(tov_configs, StoredTovId) = <<>>
                  THEN tovPreflightError("id_missing")
                  ELSE tovPreflightError(input.tov)
         configId == IF input.tov = "inline" THEN "tov-of-" \o self ELSE StoredTovId
         inserted == IF input.tov = "inline"
                       THEN Append(tov_configs, [id |-> configId, params |-> InlineTov])
                       ELSE tov_configs
     IN IF err # <<>>
          THEN /\ outcome' = [kind |-> "threw", error |-> err]
               /\ pc' = "done"
               /\ UNCHANGED <<tov_configs, tovConfig>>
          ELSE /\ tov_configs' = inserted
               /\ tovConfig' = <<selectTov(inserted, configId)[1]>>
               /\ pc' = "create"
               /\ UNCHANGED outcome
  /\ UNCHANGED <<functionVars, schedulerVars, prospectVars, tovInstructions, tovStatus, response, variant, input, clock, message_sequences, sequence_messages, ai_generations,
                 exPc, generationType, model, attempt, lastError, content, analysis, result,
                 msgIdx, error, invocations, outcomes, raised, sleeps>>

\* Step 3: insert the Sequence row with status "generating"
\* (created_at = updated_at = now, read when generateSequence was entered).
newSequenceRow(id, in, now) ==
  [id |-> id,
   sequence_length |-> in.sequence_length,
   status |-> "generating",
   prospect_analysis |-> <<>>,
   overall_confidence |-> <<>>,
   error_message |-> <<>>,
   created_at |-> now,
   updated_at |-> now]

CreateSequence ==
  /\ pc = "create"
  /\ message_sequences' = Append(message_sequences,
                                 newSequenceRow(sequenceId, input, 0)
                                   @@ [tov_config_id |-> tovConfig[1].id])
  /\ pc' = "pass1"
  /\ UNCHANGED <<functionVars, schedulerVars, prospectVars, tovVars, response, variant, input, clock, sequence_messages, ai_generations,
                 exPc, generationType, model, attempt, lastError, content, analysis, result,
                 msgIdx, error, outcome, invocations, outcomes, raised, sleeps>>

\* ------------------------------------------------------------- executor
\* Faulty variant: the executor goes on with the model of the last call.
EnterExecutor_sticky(p) ==
  /\ exPc' = "call"
  /\ generationType' = p
  /\ model' = model
  /\ attempt' = 1
  /\ lastError' = <<>>
  /\ raised' = <<>>

\* callOpenAI / callOllama entered with the default model argument.
EnterExecutor(p) ==
  /\ exPc' = "call"
  /\ generationType' = p
  /\ model' = PRIMARY_MODEL(variant)
  /\ attempt' = 1
  /\ lastError' = <<>>
  /\ raised' = <<>>

\* Step 4: analyzeProspect builds its prompt and calls the executor.
StartPass1 ==
  /\ pc = "pass1"
  /\ EnterExecutor("prospect_analysis")
  /\ pc' = "await1"
  /\ UNCHANGED <<functionVars, schedulerVars, prospectVars, tovVars, response, variant, input, clock, message_sequences, sequence_messages, ai_generations,
                 content, analysis, result, msgIdx, error, outcome, invocations, outcomes, sleeps>>

\* Step 5: translateTov, then generateMessages builds its prompt and calls
\* the executor.
\* Faulty variant: the configuration is read again from the table, and the
\* stored defaults of a new row are taken when it is gone.
tovConfigForPass2_reread(loaded, tbl) ==
  IF selectTov(tbl, loaded.id) = <<>>
    THEN [id |-> loaded.id,
          params |-> [formality |-> 31, warmth |-> 31, directness |-> 31, humor |-> <<30>>,
                      enthusiasm |-> <<31>>, custom_instructions |-> <<>>]]
    ELSE selectTov(tbl, loaded.id)[1]

\* The tovConfig that step 5 translates: the const read in step 2.
tovConfigForPass2(loaded, tbl) == loaded

StartPass2 ==
  /\ pc = "pass2"
  /\ EnterExecutor("sequence_generation")
  /\ tovInstructions' = <<translateTov(tovConfigForPass2(tovConfig[1], tov_configs).params)>>
  /\ pc' = "await2"
  /\ UNCHANGED <<functionVars, schedulerVars, prospectVars, tov_configs, tovConfig, tovStatus, response, variant, input, clock, message_sequences, sequence_messages, ai_generations,
                 content, analysis, result, msgIdx, error, outcome, invocations, outcomes, sleeps>>

\* openai.chat.completions.create(...) is issued; the executor awaits it.
IssueCall ==
  /\ exPc = "call"
  /\ exPc' = "inflight"
  /\ invocations' = [invocations EXCEPT ![generationType] = @ + 1]
  /\ UNCHANGED <<functionVars, schedulerVars, prospectVars, tovVars, response, variant, input, pc, clock, message_sequences, sequence_messages, ai_generations,
                 generationType, model, attempt, lastError, content, analysis, result,
                 msgIdx, error, outcome, outcomes, raised, sleeps>>

\* Faulty variant: every failed attempt is recorded as error.
attemptStatus_error(n) == "error"

\* status column of a failed attempt
attemptStatus(n) == IF n < MAX_RETRIES THEN "error" ELSE "timeout"

\* Faulty variants of backoffMs: the README's 1s, 2s, 4s; a constant delay.
backoffMs_readme(n) == (2 ^ (n - 1)) * 1000

backoffMs_fixed(n) == 2000

\* Math.pow(2, attempt) * 1000
backoffMs(n) == (2 ^ n) * 1000

\* Faulty variant: a response without content is passed on as the empty text.
contentOrDefault_raw(c) == IF c = <<>> THEN Garbage ELSE c[1]

\* response.choices[0]?.message?.content || "{}"
contentOrDefault(c) == IF c = <<>> THEN JSONstringify(JObject("absent", <<>>, <<>>)) ELSE c[1]

\* response.usage as the API reports it: none with a response without
\* content, else the token counts of the phase.
usageOf(p, c) ==
  IF c = <<>> THEN <<>>
  ELSE IF p = "prospect_analysis"
    THEN <<[prompt_tokens |-> 100, completion_tokens |-> 20, total_tokens |-> 120]>>
    ELSE <<[prompt_tokens |-> 300, completion_tokens |-> 80, total_tokens |-> 380]>>

\* response.usage || { prompt_tokens: 0, completion_tokens: 0, total_tokens: 0 }
usageOrDefault(u) ==
  IF u = <<>> THEN [prompt_tokens |-> 0, completion_tokens |-> 0, total_tokens |-> 0] ELSE u[1]

\* COST_TABLE, in hundredths of a dollar per million tokens; a model that is
\* not in the table takes the default rates of the variant.
COST_TABLE(v, m) ==
  IF v = "hosted"
    THEN IF m = "gpt-4o" THEN [input |-> 250, output |-> 1000] ELSE [input |-> 15, output |-> 60]
    ELSE [input |-> 0, output |-> 0]

\* estimateCost, in units of 10^-8 dollar.
estimateCost(v, m, promptTokens, completionTokens) ==
  promptTokens * COST_TABLE(v, m).input + completionTokens * COST_TABLE(v, m).output

\* const latencyMs = Date.now() - startTime: some number of milliseconds.
latencyMs == "Date.now() - startTime"

\* Faulty variant: the success row without its cost estimate.
logSuccess_noCost(ledger, id, p, m, text, usage, cost) ==
  Append(ledger, [sequence_id |-> id, generation_type |-> p, model |-> m,
                  prompt_tokens |-> <<usage.prompt_tokens>>,
                  completion_tokens |-> <<usage.completion_tokens>>,
                  total_tokens |-> <<usage.total_tokens>>, estimated_cost_usd |-> <<>>,
                  latency_ms |-> <<latencyMs>>,
                  raw_response |-> <<text>>, status |-> "success"])

\* Faulty variant: a successful attempt is not logged.
logSuccess_none(ledger, id, p, m, text, usage, cost) == ledger

\* "Log successful generation": db.insert(aiGenerations) in the try block.
logSuccess(ledger, id, p, m, text, usage, cost) ==
  Append(ledger, [sequence_id |-> id, generation_type |-> p, model |-> m,
                  prompt_tokens |-> <<usage.prompt_tokens>>,
                  completion_tokens |-> <<usage.completion_tokens>>,
                  total_tokens |-> <<usage.total_tokens>>, estimated_cost_usd |-> <<cost>>,
                  latency_ms |-> <<latencyMs>>,
                  raw_response |-> <<text>>, status |-> "success"])

\* Faulty variant: failed attempts are not logged at all.
logFailure_unlogged(ledger, id, p, m, n) == ledger

\* Faulty variant: the final failure of a model is not logged.
logFailure_skipLast(ledger, id, p, m, n) ==
  IF n < MAX_RETRIES
    THEN Append(ledger, [sequence_id |-> id, generation_type |-> p, model |-> m,
                         prompt_tokens |-> <<>>, completion_tokens |-> <<>>,
                         total_tokens |-> <<>>, estimated_cost_usd |-> <<>>,
                         latency_ms |-> <<latencyMs>>,
                         raw_response |-> <<>>, status |-> attemptStatus(n)])
    ELSE ledger

\* "Log failed attempt": db.insert(aiGenerations) in the catch block.
logFailure(ledger, id, p, m, n) ==
  Append(ledger, [sequence_id |-> id, generation_type |-> p, model |-> m,
                  prompt_tokens |-> <<>>, completion_tokens |-> <<>>,
                  total_tokens |-> <<>>, estimated_cost_usd |-> <<>>,
                  latency_ms |-> <<latencyMs>>,
                  raw_response |-> <<>>, status |-> attemptStatus(n)])

\* The call resolves: the success row is inserted and the executor returns.
CallSucceedsWith(answers) ==
  /\ \E c \in answers :
       /\ LET usage == usageOrDefault(usageOf(generationType, c))
          IN ai_generations' =
               logSuccess(ai_generations, sequenceId, generationType, model,
                          contentOrDefault(c), usage,
                          estimateCost(variant, model, usage.prompt_tokens,
                                       usage.completion_tokens))
       /\ content' = <<contentOrDefault(c)>>
  /\ lastError' = <<>>
  /\ outcomes' = [outcomes EXCEPT ![generationType] = Append(@, "ok")]
  /\ exPc' = "idle"
  /\ pc' = IF generationType = "prospect_analysis" THEN "parse1" ELSE "parse2"
  /\ clock' = clock + 1
  /\ UNCHANGED <<functionVars, schedulerVars, prospectVars, tovVars, response, variant, input, message_sequences, sequence_messages,
                 generationType, model, attempt, analysis, result,
                 msgIdx, error, outcome, invocations, raised, sleeps>>

CallSucceeds ==
  /\ exPc = "inflight"
  /\ CallSucceedsWith(Contents(generationType))

CallSucceedsThreeStep ==
  /\ exPc = "inflight"
  /\ CallSucceedsWith(ThreeStepContents(generationType))

\* What the code after the retry loop does once the loop has run out:
\* callOpenAI re-enters itself with FALLBACK_MODEL when it was running the
\* primary model; callOllama has no fallback branch.
\* Faulty variant: the hosted executor restarts under the fallback model
\* whatever model ran out.
callOpenAI_afterLoop_always(m) == "fallback"

\* Faulty variant: the hosted executor without its fallback branch.
callOpenAI_afterLoop_noFallback(m) == "throw"

callOpenAI_afterLoop(m) == IF m = PRIMARY_MODEL("hosted") THEN "fallback" ELSE "throw"

\* Faulty variant: the self-hosted executor with the hosted fallback branch.
callOllama_afterLoop_fallback(m) ==
  IF m = PRIMARY_MODEL("selfhosted") THEN "fallback" ELSE "throw"

callOllama_afterLoop(m) == "throw"

afterLoop(v, m) == IF v = "hosted" THEN callOpenAI_afterLoop(m) ELSE callOllama_afterLoop(m)

\* The call rejects: the failure row is inserted; then the executor sleeps,
\* or restarts under the fallback model, or throws.
CallFails ==
  /\ exPc = "inflight"
  /\ \E e \in ModelErrors :
       /\ outcomes' = [outcomes EXCEPT ![generationType] = Append(@, "fail")]
       /\ raised' = <<e>>
       /\ IF attempt < MAX_RETRIES
            THEN /\ exPc' = "sleeping"
                 /\ lastError' = <<e>>
                 /\ UNCHANGED <<pc, model, attempt, error>>
            ELSE IF afterLoop(variant, model) = "fallback"
              THEN /\ exPc' = "call"
                   /\ model' = FALLBACK_MODEL(variant)
                   /\ attempt' = 1
                   /\ lastError' = <<>>
                   /\ UNCHANGED <<pc, error>>
              ELSE /\ exPc' = "idle"
                   /\ error' = <<ExhaustedError(e)>>
                   /\ pc' = "catch"
                   /\ lastError' = <<e>>
                   /\ UNCHANGED <<model, attempt>>
  /\ ai_generations' = logFailure(ai_generations, sequenceId, generationType, model, attempt)
  /\ clock' = clock + 1
  /\ UNCHANGED <<functionVars, schedulerVars, prospectVars, tovVars, response, variant, input, message_sequences, sequence_messages,
                 generationType, content, analysis, result, msgIdx, outcome, invocations, sleeps>>

\* sleep(backoffMs) elapses and the loop goes to the next attempt.
Wake ==
  /\ exPc = "sleeping"
  /\ sleeps' = [sleeps EXCEPT ![generationType] =
                  Append(@, [attempt |-> attempt, model |-> model, ms |-> backoffMs(attempt)])]
  /\ attempt' = attempt + 1
  /\ exPc' = "call"
  /\ UNCHANGED <<functionVars, schedulerVars, prospectVars, tovVars, response, variant, input, pc, clock, message_sequences, sequence_messages, ai_generations,
                 generationType, model, lastError, content, analysis, result,
                 msgIdx, error, outcome, invocations, outcomes, raised>>


\* -------------------------------------------------- orchestrator: pass 1
\* analyzeProspect after the executor returned: parse the content; a parse
\* failure becomes AppError(502, "AI returned invalid JSON ...").
ParseAnalysis ==
  /\ pc = "parse1"
  /\ LET parsed == ParseContent(variant, content[1])
     IN IF parsed = <<>>
          THEN /\ error' = <<InvalidJsonError("prospect_analysis")>>
               /\ pc' = "catch"
               /\ UNCHANGED analysis
          ELSE /\ analysis' = parsed
               /\ pc' = "store1"
               /\ UNCHANGED error
  /\ UNCHANGED <<functionVars, schedulerVars, prospectVars, tovVars, response, variant, input, clock, message_sequences, sequence_messages, ai_generations,
                 exPc, generationType, model, attempt, lastError, content, result,
                 msgIdx, outcome, invocations, outcomes, raised, sleeps>>

\* "Store the analysis": prospect_analysis = JSON.stringify(analysis).
\* Faulty variant: the analysis is not written, only updated_at is bumped.
analysisChanges_noAnalysis(a, now) == [updated_at |-> now]

analysisChanges(a, now) == [prospect_analysis |-> <<JSONstringify(a)>>, updated_at |-> now]

StoreAnalysis ==
  /\ pc = "store1"
  /\ message_sequences' = UpdateSequence(sequenceId, analysisChanges(analysis[1], clock))
  /\ clock' = clock + 1
  /\ pc' = "pass2"
  /\ UNCHANGED <<functionVars, schedulerVars, prospectVars, tovVars, response, variant, input, sequence_messages, ai_generations,
                 exPc, generationType, model, attempt, lastError, content, analysis, result,
                 msgIdx, error, outcome, invocations, outcomes, raised, sleeps>>

\* -------------------------------------------------- orchestrator: pass 2
\* The validation inside generateMessages' try block: reading `messages` of
\* null throws a TypeError, a missing or non-array `messages` throws
\* "Missing messages array"; the catch turns either into the AppError.
\* Faulty variant: any object passes, with or without a messages array.
validMessages_lax(parsed) == parsed.t # "null"

validMessages(parsed) == parsed.t # "null" /\ parsed.m = "array"

ParseMessages ==
  /\ pc = "parse2"
  /\ LET parsed == ParseContent(variant, content[1])
     IN IF parsed = <<>> \/ ~validMessages(parsed[1])
          THEN /\ error' = <<InvalidJsonError("sequence_generation")>>
               /\ pc' = "catch"
               /\ UNCHANGED <<result, msgIdx>>
          ELSE /\ result' = parsed
               /\ msgIdx' = 1
               /\ pc' = "insert"
               /\ UNCHANGED error
  /\ UNCHANGED <<functionVars, schedulerVars, prospectVars, tovVars, response, variant, input, clock, message_sequences, sequence_messages, ai_generations,
                 exPc, generationType, model, attempt, lastError, content, analysis,
                 outcome, invocations, outcomes, raised, sleeps>>

\* Step 6, one iteration of `for (const msg of result.messages)`: the row
\* gets msg.step_number as the model gave it.  Reading a property of a null
\* element throws a TypeError; an omitted step_number violates NOT NULL.
\* db.insert(schema.sequenceMessages): the row takes step_number and
\* message_type from the element the model returned.
messageRow(tbl, id, msg) ==
  Append(tbl, [sequence_id |-> id, step_number |-> msg.step_number[1],
               message_type |-> msg.message_type[1]])

InsertMessage ==
  /\ pc = "insert"
  /\ msgIdx <= Len(result[1].messages)
  /\ LET msg == result[1].messages[msgIdx]
     IN IF msg.t = "null"
          THEN /\ error' = <<TypeError("Cannot read properties of null")>>
               /\ pc' = "catch"
               /\ UNCHANGED <<sequence_messages, msgIdx, clock>>
          ELSE IF msg.step_number = <<>>
            THEN /\ error' = <<SqliteError("NOT NULL constraint failed: sequence_messages.step_number")>>
                 /\ pc' = "catch"
                 /\ UNCHANGED <<sequence_messages, msgIdx, clock>>
            ELSE IF msg.message_type = <<>>
              THEN /\ error' = <<SqliteError("NOT NULL constraint failed: sequence_messages.message_type")>>
                   /\ pc' = "catch"
                   /\ UNCHANGED <<sequence_messages, msgIdx, clock>>
              ELSE /\ sequence_messages' = messageRow(sequence_messages, sequenceId, msg)
                   /\ msgIdx' = msgIdx + 1
                   /\ clock' = clock + 1
                   /\ UNCHANGED <<error, pc>>
  /\ UNCHANGED <<functionVars, schedulerVars, prospectVars, tovVars, response, variant, input, message_sequences, ai_generations,
                 exPc, generationType, model, attempt, lastError, content, analysis, result,
                 outcome, invocations, outcomes, raised, sleeps>>

\* "Update sequence status": after the loop, status = "completed" and
\* overall_confidence = result.overall_confidence (left as is if undefined).
completedChanges(res, now) ==
  IF res.overall_confidence = <<>>
    THEN [status |-> "completed", updated_at |-> now]
    ELSE [status |-> "completed", overall_confidence |-> res.overall_confidence,
          updated_at |-> now]

MarkCompleted ==
  /\ pc = "insert"
  /\ msgIdx > Len(result[1].messages)
  /\ message_sequences' = UpdateSequence(sequenceId, completedChanges(result[1], clock))
  /\ clock' = clock + 1
  /\ pc' = "respond"
  /\ UNCHANGED <<functionVars, schedulerVars, prospectVars, tovVars, response, variant, input, sequence_messages, ai_generations,
                 exPc, generationType, model, attempt, lastError, content, analysis, result,
                 msgIdx, error, outcome, invocations, outcomes, raised, sleeps>>

\* normalizeProspectAnalysis(raw) reads raw.professional_summary first:
\* it throws a TypeError when raw is null.
normalizeProspectAnalysisThrows(raw) == raw.t = "null"

\* normalizeProspectAnalysis(raw): a string property is kept and anything
\* else becomes the empty string ("empty"); an array property is kept and
\* anything else becomes the empty array ("emptyarray"); seniority_level
\* is kept when it is a string and is "unknown" otherwise.
normalizeProspectAnalysis(raw) ==
  [professional_summary |->
     IF raw.fields.professional_summary = "string" THEN "string" ELSE "empty",
   key_interests |-> IF raw.fields.key_interests = "array" THEN "array" ELSE "emptyarray",
   seniority_level |->
     IF raw.fields.seniority_level \in {"absent", "number"}
       THEN "unknown" ELSE raw.fields.seniority_level]

\* buildSequenceResponse(sequenceId), called inside the try block:
\* prospect_analysis is parsed back and normalised when it is non-empty.
buildSequenceResponseThrows(id) ==
  /\ Row(id).prospect_analysis # <<>>
  /\ normalizeProspectAnalysisThrows(JSONparse(Row(id).prospect_analysis[1])[1])

RECURSIVE sumOf(_, _)
sumOf(aiGens, column) ==
  IF aiGens = <<>> THEN 0
  ELSE (IF aiGens[1][column] = <<>> THEN 0 ELSE aiGens[1][column][1]) + sumOf(Tail(aiGens), column)

\* [...new Set(aiGens.map((g) => g.model))]: the models in the order of
\* their first row.
distinctModels(aiGens) ==
  LET firsts == SelectSeq([i \in DOMAIN aiGens |-> i],
                          LAMBDA i : \A j \in 1..(i - 1) : aiGens[j].model # aiGens[i].model)
  IN [k \in DOMAIN firsts |-> aiGens[firsts[k]].model]

\* Faulty variant: only the successful attempts are aggregated.
aiMetadata_successOnly(aiGens) ==
  LET ok == SelectSeq(aiGens, LAMBDA g : g.status = "success")
  IN [total_tokens |-> sumOf(ok, "total_tokens"),
      total_cost_usd |-> sumOf(ok, "estimated_cost_usd"),
      models_used |-> distinctModels(ok)]

\* "Aggregate AI metadata" over the ledger rows of the Sequence.
aiMetadata(aiGens) ==
  [total_tokens |-> sumOf(aiGens, "total_tokens"),
   total_cost_usd |-> sumOf(aiGens, "estimated_cost_usd"),
   models_used |-> distinctModels(aiGens)]

\* What buildSequenceResponse returns, as far as it is looked at.
buildSequenceResponse(id) ==
  [ok |-> TRUE, status |-> Row(id).status,
   prospect_analysis |->
     IF Row(id).prospect_analysis = <<>> THEN <<>>
     ELSE <<normalizeProspectAnalysis(JSONparse(Row(id).prospect_analysis[1])[1])>>,
   ai_metadata |-> aiMetadata(SelectSeq(ai_generations, LAMBDA g : g.sequence_id = id))]

ResponseThrew ==
  [ok |-> FALSE, status |-> "", prospect_analysis |-> <<>>, ai_metadata |-> aiMetadata(<<>>)]

BuildResponse ==
  /\ pc = "respond"
  /\ IF buildSequenceResponseThrows(sequenceId)
       THEN /\ error' = <<TypeError("Cannot read properties of null")>>
            /\ pc' = "catch"
            /\ UNCHANGED <<outcome, response>>
       ELSE /\ outcome' = [kind |-> "returned", error |-> <<>>]
            /\ response' = <<buildSequenceResponse(sequenceId)>>
            /\ pc' = "done"
            /\ UNCHANGED error
  /\ UNCHANGED <<functionVars, schedulerVars, prospectVars, tovVars, variant, input, clock, message_sequences, sequence_messages, ai_generations,
                 exPc, generationType, model, attempt, lastError, content, analysis, result,
                 msgIdx, invocations, outcomes, raised, sleeps>>

\* The catch block: mark the Sequence failed with error.message, rethrow.
\* Faulty variants of failedChanges: a fixed message; the status left alone;
\* the stored analysis wiped.
failedChanges_clearAnalysis(err, now) ==
  [status |-> "failed", error_message |-> <<err.message>>, prospect_analysis |-> <<>>,
   updated_at |-> now]

failedChanges_unknown(err, now) ==
  [status |-> "failed", error_message |-> <<Message("Unknown error", 0, "")>>, updated_at |-> now]

failedChanges_noStatus(err, now) == [error_message |-> <<err.message>>, updated_at |-> now]

failedChanges(err, now) ==
  [status |-> "failed", error_message |-> <<err.message>>, updated_at |-> now]

CatchFailed ==
  /\ pc = "catch"
  /\ message_sequences' = UpdateSequence(sequenceId, failedChanges(error[1], clock))
  /\ clock' = clock + 1
  /\ outcome' = [kind |-> "threw", error |-> error]
  /\ pc' = "done"
  /\ UNCHANGED <<functionVars, schedulerVars, prospectVars, tovVars, response, variant, input, sequence_messages, ai_generations,
                 exPc, generationType, model, attempt, lastError, content, analysis, result,
                 msgIdx, error, invocations, outcomes, raised, sleeps>>

\* GET /api/sequences/:id once the request is over: buildSequenceResponse
\* of the stored Sequence; it throws when there is no such row or when the
\* stored analysis is null.
GetSequence ==
  /\ pc = "done"
  /\ response = <<>>
  /\ response' = IF ~RowExists(sequenceId) \/ buildSequenceResponseThrows(sequenceId)
                   THEN <<ResponseThrew>>
                   ELSE <<buildSequenceResponse(sequenceId)>>
  /\ UNCHANGED <<functionVars, schedulerVars, prospectVars, tovVars, variant, input, pc, clock, message_sequences, sequence_messages,
                 ai_generations, exPc, generationType, model, attempt, lastError, content,
                 analysis, result, msgIdx, error, outcome, invocations, outcomes, raised,
                 sleeps>>

\* ---------------------------------------------------------- specification
Next ==
  \/ ResolveTovConfig
  \/ CreateSequence
  \/ StartPass1
  \/ IssueCall
  \/ CallSucceeds
  \/ CallFails
  \/ Wake
  \/ ParseAnalysis
  \/ StoreAnalysis
  \/ StartPass2
  \/ ParseMessages
  \/ InsertMessage
  \/ MarkCompleted
  \/ BuildResponse
  \/ CatchFailed
  \/ GetSequence

Spec == Init /\ [][Next]_vars

\* The scenario in which every model call succeeds at its first attempt and
\* pass 2 answers three messages with steps 1, 2, 3 to a three-step request.
NextThreeStep ==
  \/ ResolveTovConfig
  \/ CreateSequence
  \/ StartPass1
  \/ IssueCall
  \/ CallSucceedsThreeStep
  \/ ParseAnalysis
  \/ StoreAnalysis
  \/ StartPass2
  \/ ParseMessages
  \/ InsertMessage
  \/ MarkCompleted
  \/ BuildResponse
  \/ CatchFailed

SpecThreeStep == InitThreeStep /\ [][NextThreeStep]_vars

\* ----------------------------------------------- functions on their own
\* The functions of the services applied to an argument outside a request.
FunctionCalls ==
  {[fn |-> "getTier", arg |-> v] : v \in TovGrid}
    \cup {[fn |-> "translateTov", arg |-> p] : p \in TovParams}
    \cup {[fn |-> "getMessageTypes", arg |-> n] : n \in SequenceLengths}

InitFunctions ==
  /\ InitWith(Variants, [tov : {"inline"}, sequence_length : {1}], FunctionCalls)
  /\ Alone

Return(fn, value) ==
  /\ call.fn = fn
  /\ ret = <<>>
  /\ ret' = <<value>>
  /\ UNCHANGED <<call, schedulerVars, prospectVars, tovVars, response, variant, input, pc, clock, message_sequences, sequence_messages,
                 ai_generations, exPc, generationType, model, attempt, lastError, content,
                 analysis, result, msgIdx, error, outcome, invocations, outcomes, raised,
                 sleeps>>

ApplyGetTier ==
  /\ call.fn = "getTier"
  /\ Return("getTier", getTier(call.arg))

ApplyTranslateTov ==
  /\ call.fn = "translateTov"
  /\ Return("translateTov", translateTov(call.arg))

ApplyGetMessageTypes ==
  /\ call.fn = "getMessageTypes"
  /\ Return("getMessageTypes", getMessageTypes(call.arg))

NextFunctions ==
  \/ ApplyGetTier
  \/ ApplyTranslateTov
  \/ ApplyGetMessageTypes

SpecFunctions == InitFunctions /\ [][NextFunctions]_vars

\* The parser of the self-hosted service applied to a raw text.
ParserCalls == {[fn |-> "parseJSONFromLLM", arg |-> raw] : raw \in RawTexts}

InitParser ==
  /\ InitWith({"selfhosted"}, [tov : {"inline"}, sequence_length : {1}], ParserCalls)
  /\ Alone

ApplyParseJSONFromLLM ==
  /\ call.fn = "parseJSONFromLLM"
  /\ Return("parseJSONFromLLM", recover(call.arg))

NextParser == ApplyParseJSONFromLLM

SpecParser == InitParser /\ [][NextParser]_vars

\* ------------------------------------------------------ prospect cache
\* A LinkedIn URL is a sequence of tokens: a scheme, a host, path segments
\* ("/in", "/company"), the separator "/", pieces of a username and a query.
\* String.prototype.toLowerCase on a token.
toLowerCase(tok) ==
  CASE tok = "LinkedIn.com" -> "linkedin.com"
    [] tok = "/IN" -> "/in"
    [] tok = "John" -> "john"
    [] OTHER -> tok

\* The token is made of characters of the class [a-zA-Z0-9_-].
isUsernameToken(tok) == tok \in {"john", "John", "jane", "-doe", "details"}

\* url.replace of the trailing run of slashes by the empty string.
RECURSIVE stripTrailingSlashes(_)
stripTrailingSlashes(url) ==
  IF url # <<>> /\ url[Len(url)] = "/"
    THEN stripTrailingSlashes(SubSeq(url, 1, Len(url) - 1))
    ELSE url

\* The longest run of username tokens of url that starts at position i.
RECURSIVE usernameAt(_, _)
usernameAt(url, i) ==
  IF i \in DOMAIN url /\ isUsernameToken(url[i])
    THEN <<url[i]>> \o usernameAt(url, i + 1)
    ELSE <<>>

\* url.match of linkedin.com/in/ followed by one or more username
\* characters: <<>> when there is no match, else <<the captured username>>
\* of the leftmost match.
matchProfile(url) ==
  LET starts == {i \in DOMAIN url :
                   /\ url[i] = "linkedin.com"
                   /\ i + 3 \in DOMAIN url
                   /\ url[i + 1] = "/in"
                   /\ url[i + 2] = "/"
                   /\ isUsernameToken(url[i + 3])}
  IN IF starts = {} THEN <<>>
     ELSE <<usernameAt(url, 3 + CHOOSE i \in starts : \A j \in starts : i <= j)>>

\* normalizeLinkedInUrl: <<>> when it throws AppError(400), else the
\* canonical URL https://www.linkedin.com/in/ followed by the username.
normalizeLinkedInUrl(url) ==
  LET cleaned == [i \in DOMAIN stripTrailingSlashes(url) |->
                    toLowerCase(stripTrailingSlashes(url)[i])]
      match == matchProfile(cleaned)
  IN IF match = <<>> THEN <<>>
     ELSE <<(<<"https://www.", "linkedin.com", "/in", "/">> \o match[1])>>

\* extractUsername
extractUsername(url) == matchProfile(url)

\* The URLs that requests carry.
Urls ==
  {prefix \o <<host, "/in", "/">> \o user \o suffix :
     prefix \in {<<>>, <<"https://www.">>},
     host \in {"linkedin.com", "LinkedIn.com"},
     user \in {<<"john">>, <<"John">>, <<"jane">>},
     suffix \in {<<>>, <<"/">>, <<"?x">>, <<"/", "details">>}}
    \cup {<<"https://www.", "example.com", "/in", "/", "john">>,
          <<"https://www.", "linkedin.com", "/in", "/">>,
          <<"linkedin.com", "/company", "/", "john">>,
          <<"https://www.", "linkedin.com", "/IN", "/", "john", "-doe", "/", "/">>}

\* Faulty variant: the cache is looked up by the URL as it was given.
cacheKey_raw(linkedinUrl, normalizedUrl) == linkedinUrl

\* where(eq(schema.prospects.linkedin_url, normalizedUrl))
cacheKey(linkedinUrl, normalizedUrl) == normalizedUrl

\* The rows of prospects with this linkedin_url.
prospectsWith(url) == SelectSeq(prospects, LAMBDA r : r.linkedin_url = url)

\* getOrFetchProspect(linkedinUrl), which has no await in its body: it runs
\* from its call to its return without another request in between.  The
\* resolution is recorded with the prospect it returned, or as thrown.
MaxResolutions == 2

GetOrFetchProspect ==
  /\ Len(resolutions) < MaxResolutions
  /\ \E linkedinUrl \in Urls :
       LET normalized == normalizeLinkedInUrl(linkedinUrl)
       IN IF normalized = <<>> \/ extractUsername(normalized[1]) = <<>>
            THEN /\ resolutions' = Append(resolutions, [url |-> linkedinUrl, prospect |-> <<>>])
                 /\ UNCHANGED prospects
            ELSE LET existing == prospectsWith(cacheKey(linkedinUrl, normalized[1]))
                     prospect == [id |-> Len(prospects) + 1,
                                  linkedin_url |-> normalized[1],
                                  linkedin_username |-> extractUsername(normalized[1])[1]]
                 IN IF existing # <<>>
                      THEN /\ resolutions' = Append(resolutions, [url |-> linkedinUrl,
                                                                  prospect |-> <<existing[1]>>])
                           /\ UNCHANGED prospects
                      ELSE IF prospectsWith(prospect.linkedin_url) # <<>>
                        THEN \* UNIQUE constraint failed: prospects.linkedin_url
                             /\ resolutions' = Append(resolutions, [url |-> linkedinUrl,
                                                                    prospect |-> <<>>])
                             /\ UNCHANGED prospects
                        ELSE /\ prospects' = Append(prospects, prospect)
                             /\ resolutions' = Append(resolutions, [url |-> linkedinUrl,
                                                                    prospect |-> <<prospect>>])
  /\ UNCHANGED <<functionVars, schedulerVars, tovVars, response, variant, input, pc, clock,
                 message_sequences, sequence_messages, ai_generations, exPc, generationType,
                 model, attempt, lastError, content, analysis, result, msgIdx, error, outcome,
                 invocations, outcomes, raised, sleeps>>

InitProspects ==
  /\ InitWith(Variants, [tov : {"inline"}, sequence_length : {1}], {NoCall})
  /\ Alone

NextProspects == GetOrFetchProspect

SpecProspects == InitProspects /\ [][NextProspects]_vars

\* ------------------------------------------------ concurrent generations
\* Two requests served by the one Node process.  The event loop runs one
\* generation at a time and changes over to another only where the running
\* one awaits; the locals of a generation are its own, the tables are shared.
locals ==
  [self |-> self, input |-> input, pc |-> pc, exPc |-> exPc,
   generationType |-> generationType, model |-> model, attempt |-> attempt,
   lastError |-> lastError, content |-> content, analysis |-> analysis,
   result |-> result, msgIdx |-> msgIdx, error |-> error, outcome |-> outcome,
   invocations |-> invocations, outcomes |-> outcomes, raised |-> raised,
   sleeps |-> sleeps, response |-> response, tovConfig |-> tovConfig,
   tovInstructions |-> tovInstructions]

\* The locals of a request that has resolved its prospect and no more.
initialLocals(id, in) ==
  [self |-> id, input |-> in, pc |-> "resolve", exPc |-> "idle",
   generationType |-> "prospect_analysis", model |-> PRIMARY_MODEL(variant), attempt |-> 1,
   lastError |-> <<>>, content |-> <<>>, analysis |-> <<>>,
   result |-> <<>>, msgIdx |-> 1, error |-> <<>>,
   outcome |-> [kind |-> "pending", error |-> <<>>],
   invocations |-> [p \in Phases |-> 0], outcomes |-> [p \in Phases |-> <<>>],
   raised |-> <<>>, sleeps |-> [p \in Phases |-> <<>>], response |-> <<>>,
   tovConfig |-> <<>>, tovInstructions |-> <<>>]

\* The running generation is suspended: at the awaited model call or
\* sleep, or at the continuation of an awaited async function.
AtAwait ==
  \/ exPc \in {"inflight", "sleeping"}
  \/ pc \in {"resolve", "parse1", "store1", "parse2", "catch", "done"}
  \/ (pc = "insert" /\ msgIdx = 1)

\* The event loop resumes another generation.
Switch ==
  /\ AtAwait
  /\ \E k \in DOMAIN parked :
       LET g == parked[k]
       IN /\ parked' = [parked EXCEPT ![k] = locals]
          /\ self' = g.self
          /\ input' = g.input
          /\ pc' = g.pc
          /\ exPc' = g.exPc
          /\ generationType' = g.generationType
          /\ model' = g.model
          /\ attempt' = g.attempt
          /\ lastError' = g.lastError
          /\ content' = g.content
          /\ analysis' = g.analysis
          /\ result' = g.result
          /\ msgIdx' = g.msgIdx
          /\ error' = g.error
          /\ outcome' = g.outcome
          /\ invocations' = g.invocations
          /\ outcomes' = g.outcomes
          /\ raised' = g.raised
          /\ sleeps' = g.sleeps
          /\ response' = g.response
          /\ tovConfig' = g.tovConfig
          /\ tovInstructions' = g.tovInstructions
  /\ UNCHANGED <<functionVars, prospectVars, tov_configs, tovStatus, variant, clock, message_sequences,
                 sequence_messages, ai_generations>>

\* What the model answers in this scenario: a well-formed answer of the
\* phase (one message with step 1 in pass 2) or a text that is not JSON.
ConcurrentContents(p) ==
  {<<Garbage>>,
   <<JSONstringify(IF p = "prospect_analysis"
                     THEN JObject("absent", <<>>, <<>>)
                     ELSE JObject("array", <<Element(<<1>>, <<"connection_request">>)>>, <<82>>))>>}

CallSucceedsConcurrent ==
  /\ exPc = "inflight"
  /\ CallSucceedsWith(ConcurrentContents(generationType))

\* The model call rejects, as long as fewer than MaxFailures calls of the
\* scenario have failed.
MaxFailures == 2

CallFailsConcurrent ==
  /\ Len(SelectSeq(ai_generations, LAMBDA g : g.status # "success")) < MaxFailures
  /\ CallFails

InitConcurrent ==
  /\ InitWith(Variants, [tov : {"inline"}, sequence_length : {1}], {NoCall})
  /\ self = "seq-1"
  /\ parked = <<initialLocals("seq-2", input)>>

NextConcurrent ==
  \/ ResolveTovConfig
  \/ CreateSequence
  \/ StartPass1
  \/ IssueCall
  \/ CallSucceedsConcurrent
  \/ CallFailsConcurrent
  \/ Wake
  \/ ParseAnalysis
  \/ StoreAnalysis
  \/ StartPass2
  \/ ParseMessages
  \/ InsertMessage
  \/ MarkCompleted
  \/ BuildResponse
  \/ CatchFailed
  \/ GetSequence
  \/ Switch

SpecConcurrent == InitConcurrent /\ [][NextConcurrent]_vars

\* ------------------------------------------------ the tov-configs routes
\* The routes are synchronous handlers: the event loop runs one only while
\* the generation is suspended at an await, or has returned.
\* The bodies a PUT carries: a partial configuration.
TovUpdates == {[formality |-> 31], [formality |-> 71]}

\* The ids a request to the routes names.
TovIds == {StoredTovId, "tov-of-seq-1"}

\* PUT /api/tov-configs/:id: 404 when there is no such row, else the fields
\* of the body are written over the row's.
UpdateTovConfig ==
  /\ AtAwait
  /\ \E id \in TovIds, body \in TovUpdates :
       IF selectTov(tov_configs, id) = <<>>
         THEN /\ tovStatus' = 404
              /\ UNCHANGED tov_configs
         ELSE /\ tov_configs' =
                   [k \in DOMAIN tov_configs |->
                      IF tov_configs[k].id = id
                        THEN [tov_configs[k] EXCEPT !.params.formality = body.formality]
                        ELSE tov_configs[k]]
              /\ tovStatus' = 200
  /\ UNCHANGED <<functionVars, schedulerVars, prospectVars, tovConfig, tovInstructions, response, variant, input, pc, clock, message_sequences, sequence_messages, ai_generations,
                 exPc, generationType, model, attempt, lastError, content, analysis, result,
                 msgIdx, error, outcome, invocations, outcomes, raised, sleeps>>

\* DELETE /api/tov-configs/:id: 404 when there is no such row.  The column
\* message_sequences.tov_config_id references tov_configs.id; whether the
\* connection enforces foreign keys is set where the database is opened, so
\* a delete of a row a Sequence refers to either goes through or throws
\* (answered 500 by the error handler) and leaves the row.
DeleteTovConfig ==
  /\ AtAwait
  /\ \E id \in TovIds, enforced \in BOOLEAN :
       IF selectTov(tov_configs, id) = <<>>
         THEN /\ tovStatus' = 404
              /\ UNCHANGED tov_configs
         ELSE IF enforced /\ \E k \in DOMAIN message_sequences :
                               message_sequences[k].tov_config_id = id
           THEN /\ tovStatus' = 500
                /\ UNCHANGED tov_configs
           ELSE /\ tov_configs' = SelectSeq(tov_configs, LAMBDA r : r.id # id)
                /\ tovStatus' = 200
  /\ UNCHANGED <<functionVars, schedulerVars, prospectVars, tovConfig, tovInstructions, response, variant, input, pc, clock, message_sequences, sequence_messages, ai_generations,
                 exPc, generationType, model, attempt, lastError, content, analysis, result,
                 msgIdx, error, outcome, invocations, outcomes, raised, sleeps>>

\* One generation with a stored or an inline configuration, and requests
\* to the tov-configs routes arriving while it runs.
InitTov ==
  /\ InitWith(Variants, [tov : {"id_found", "inline"}, sequence_length : {1}], {NoCall})
  /\ Alone

NextTov ==
  \/ ResolveTovConfig
  \/ CreateSequence
  \/ StartPass1
  \/ IssueCall
  \/ CallSucceedsConcurrent
  \/ CallFailsConcurrent
  \/ Wake
  \/ ParseAnalysis
  \/ StoreAnalysis
  \/ StartPass2
  \/ ParseMessages
  \/ InsertMessage
  \/ MarkCompleted
  \/ BuildResponse
  \/ CatchFailed
  \/ GetSequence
  \/ UpdateTovConfig
  \/ DeleteTovConfig

SpecTov == InitTov /\ [][NextTov]_vars

\* Every model call eventually resolves or rejects, every timer fires and the
\* event loop runs every continuation that is ready.
FairSpec == Spec /\ WF_vars(Next)

\* ------------------------------------------------------------ properties
Terminal == {"completed", "failed"}

Status == StatusIn(message_sequences, sequenceId)

Forward(a, b) ==
  \/ a = b
  \/ a = "pending" /\ b = "generating"
  \/ a = "generating" /\ b \in Terminal

Statuses(L) == [i \in DOMAIN L |-> L[i].status]

Models(L) == {L[i].model : i \in DOMAIN L}

RECURSIVE TotalMs(_)
TotalMs(sl) == IF sl = <<>> THEN 0 ELSE sl[1].ms + TotalMs(Tail(sl))

InExecutor(p) == exPc # "idle" /\ generationType = p

\* C1: over every run of generate the stored status only moves forward along
\* pending -> generating -> {completed | failed}, and once it is completed or
\* failed no later step changes any field of the Sequence row (in particular
\* a completed Sequence is never afterwards set to failed).
C1_StatusForwardAndFrozen ==
  [][/\ Forward(Status, StatusIn(message_sequences', sequenceId))
     /\ Status \in Terminal => message_sequences' = message_sequences]_vars

\* C2: the caller's outcome matches the durable record: a returned result
\* means the stored status is completed; a throw after the row was created
\* means the stored status is failed, error_message is the message of the
\* thrown error, and the error thrown to the caller is the one caught.
C2_OutcomeMatchesRecord ==
  /\ outcome.kind = "returned" =>
       RowExists(sequenceId) /\ Row(sequenceId).status = "completed"
  /\ (outcome.kind = "threw" /\ RowExists(sequenceId)) =>
       /\ Row(sequenceId).status = "failed"
       /\ outcome.error # <<>>
       /\ Row(sequenceId).error_message = <<outcome.error[1].message>>
       /\ outcome.error = error

C2_Witness ==
  /\ outcome.kind = "threw"
  /\ RowExists(sequenceId)
  /\ outcome.error[1].message.retries = MAX_RETRIES

C4_FallbackThenFatal ==
  variant = "hosted" =>
    \A p \in Phases :
      LET L == LedgerOf(sequenceId, p)
      IN /\ \A i \in DOMAIN L :
              L[i].model = FALLBACK_MODEL("hosted") =>
                /\ i > 3
                /\ Statuses(SubSeq(L, 1, 3)) = <<"error", "error", "timeout">>
                /\ Models(SubSeq(L, 1, 3)) = {PRIMARY_MODEL("hosted")}
         /\ outcomes[p] = <<"fail", "fail", "fail">> =>
              /\ Statuses(L) = <<"error", "error", "timeout">>
              /\ exPc \in {"call", "inflight"} /\ generationType = p
              /\ attempt = 1 /\ model = FALLBACK_MODEL("hosted")
              /\ invocations[p] = IF exPc = "call" THEN 3 ELSE 4
              /\ error = <<>>
         /\ outcomes[p] = <<"fail", "fail", "fail", "fail", "fail", "fail">> =>
              /\ Statuses(L) = <<"error", "error", "timeout", "error", "error", "timeout">>
              /\ Models(SubSeq(L, 4, 6)) = {FALLBACK_MODEL("hosted")}
              /\ invocations[p] = 6
              /\ exPc = "idle" /\ pc \in {"catch", "done"}
              /\ error # <<>>
              /\ error[1].name = "AppError"
              /\ error[1].message.retries = 3
              /\ error[1].message.cause = raised[1]
         /\ invocations[p] <= 6

C4_Witness ==
  /\ variant = "hosted"
  /\ outcomes["prospect_analysis"] = <<"fail", "fail", "fail", "fail", "fail", "fail">>
  /\ pc = "catch"

\* C5: every model invocation, successful or not, has exactly one ledger
\* record of the same Sequence and phase, appended before the executor
\* sleeps, starts the next attempt, switches model, returns or throws: the
\* ledger of a phase lags the invocations only while a call is in flight.
C5_EveryAttemptLogged ==
  /\ \A p \in Phases :
       LET L == LedgerOf(sequenceId, p)
       IN /\ Len(L) = invocations[p] - (IF exPc = "inflight" /\ generationType = p THEN 1 ELSE 0)
          /\ Len(outcomes[p]) = Len(L)
          /\ \A i \in DOMAIN L : (L[i].status = "success") <=> (outcomes[p][i] = "ok")
  /\ Len(ai_generations) =
       Len(LedgerOf(sequenceId, "prospect_analysis")) + Len(LedgerOf(sequenceId, "sequence_generation"))

C5_Witness ==
  /\ pc = "catch"
  /\ exPc = "idle"
  /\ invocations["prospect_analysis"] = 2
  /\ invocations["sequence_generation"] = 3

\* C6: after generate completed, the Message rows of the Sequence have step
\* numbers that are unique, contiguous and start at 1, and there are
\* sequence_length of them, whatever messages array the model returned.
C6_StepsContiguous ==
  (RowExists(sequenceId) /\ Row(sequenceId).status = "completed") =>
    LET M == MessagesOf(sequenceId)
    IN /\ Len(M) = Row(sequenceId).sequence_length
       /\ \A i \in DOMAIN M : M[i].step_number = i

\* C7: every generate call that created a Sequence row eventually ends, by
\* return or by throw, with the Sequence completed or failed (given that
\* every model call eventually returns or fails).
C7_EventuallyTerminal ==
  RowExists(sequenceId) ~> (outcome.kind # "pending" /\ pc = "done" /\ Status \in Terminal)

C7_Witness ==
  /\ outcome.kind = "threw"
  /\ Status = "failed"
  /\ invocations["sequence_generation"] = 6

\* C8: the Sequence row exists with status generating before the first
\* model call is issued, and the pass-1 analysis is on the row before the
\* first model call of pass 2 is issued.
C8_DurableBeforeCall ==
  /\ exPc # "idle" => Status = "generating"
  /\ \A p \in Phases : invocations[p] > 0 => RowExists(sequenceId)
  /\ (InExecutor("sequence_generation") \/ invocations["sequence_generation"] > 0) =>
       /\ analysis # <<>>
       /\ Row(sequenceId).prospect_analysis = <<JSONstringify(analysis[1])>>

C8_Witness ==
  /\ exPc = "call"
  /\ generationType = "sequence_generation"
  /\ invocations["sequence_generation"] = 0

\* C9: in the self-hosted variant (primary and fallback model are the same)
\* three failed attempts of a phase end the executor: it throws after exactly
\* 3 logged attempts and no further model call is made.
C9_SelfHostedNoFallback ==
  variant = "selfhosted" =>
    \A p \in Phases :
      /\ invocations[p] <= 3
      /\ outcomes[p] = <<"fail", "fail", "fail">> =>
           /\ Statuses(LedgerOf(sequenceId, p)) = <<"error", "error", "timeout">>
           /\ exPc = "idle" /\ pc \in {"catch", "done"}
           /\ error # <<>>
           /\ error[1].message.retries = 3
           /\ error[1].message.cause = raised[1]
           /\ p = "prospect_analysis" => invocations["sequence_generation"] = 0

C9_Witness ==
  /\ variant = "selfhosted"
  /\ outcomes["sequence_generation"] = <<"fail", "fail", "fail">>
  /\ pc = "done"

\* The sleeps taken under one model, and whether a model ran out of retries.
SleepMs(sl, m) ==
  LET own == SelectSeq(sl, LAMBDA z : z.model = m)
  IN [i \in DOMAIN own |-> own[i].ms]

Exhausted(p, m) ==
  \E i \in DOMAIN LedgerOf(sequenceId, p) :
    LedgerOf(sequenceId, p)[i].model = m /\ LedgerOf(sequenceId, p)[i].status = "timeout"

PhaseOrder == [i \in DOMAIN ai_generations |-> ai_generations[i].generation_type]

Successes(L) == Len(SelectSeq(L, LAMBDA g : g.status = "success"))

\* C11: when generation fails after pass 1 succeeded and pass 2 was started
\* (retry exhaustion, unparseable output, missing messages array), the
\* Sequence ends failed with prospect_analysis still holding the analysis
\* persisted after pass 1; pass 1 is not run again and no pass-1 attempt is
\* appended after the first pass-2 attempt.
C11_AnalysisKeptOnPass2Failure ==
  /\ (outcome.kind = "threw" /\ invocations["sequence_generation"] > 0) =>
       /\ Status = "failed"
       /\ analysis # <<>>
       /\ Row(sequenceId).prospect_analysis = <<JSONstringify(analysis[1])>>
       /\ Successes(LedgerOf(sequenceId, "prospect_analysis")) = 1
  /\ \A i, j \in DOMAIN ai_generations :
       (i < j /\ PhaseOrder[i] = "sequence_generation") => PhaseOrder[j] = "sequence_generation"
  /\ invocations["sequence_generation"] > 0 =>
       /\ outcomes["prospect_analysis"][Len(outcomes["prospect_analysis"])] = "ok"
       /\ ~InExecutor("prospect_analysis")

C11_Witness ==
  /\ outcome.kind = "threw"
  /\ outcome.error = <<InvalidJsonError("sequence_generation")>>
  /\ Len(LedgerOf(sequenceId, "prospect_analysis")) = 2
  /\ Len(LedgerOf(sequenceId, "sequence_generation")) = 2

\* The pass-2 text the executor returned, once pass 2 has a successful call.
Pass2Returned ==
  /\ outcomes["sequence_generation"] # <<>>
  /\ outcomes["sequence_generation"][Len(outcomes["sequence_generation"])] = "ok"

\* How a raw text reads: the value a parser gets out of it, if any.
Readable(v, text) == text.wrap = "plain" \/ (v = "selfhosted" /\ text.wrap = "fenced")

\* C12: a pass-2 result that parses but has no messages array (absent or not
\* an array) makes generateMessages throw the invalid-JSON error; no Message
\* row is persisted and the Sequence ends failed.
C12_MissingMessagesFails ==
  (/\ Pass2Returned
   /\ pc # "parse2"
   /\ Readable(variant, content[1])
   /\ content[1].value.m # "array") =>
     /\ pc \in {"catch", "done"}
     /\ error = <<InvalidJsonError("sequence_generation")>>
     /\ result = <<>>
     /\ MessagesOf(sequenceId) = <<>>
     /\ pc = "done" => (Status = "failed" /\ outcome.kind = "threw" /\ outcome.error = error)

C12_Witness ==
  /\ Pass2Returned
  /\ pc = "done"
  /\ Readable(variant, content[1])
  /\ content[1].value.t = "object"
  /\ content[1].value.m = "notarray"

\* C13: model output that the parser cannot recover is never defaulted: the
\* phase throws the invalid-JSON error, no value is taken from the text, the
\* Sequence ends failed, the caller gets the error, and the ledger record of
\* the attempt that returned the text retains it as raw_response.
C13_UnrecoverableNeverDefaulted ==
  (/\ content # <<>>
   /\ pc \notin {"parse1", "parse2"}
   /\ ~Readable(variant, content[1])) =>
     LET L == LedgerOf(sequenceId, generationType)
     IN /\ pc \in {"catch", "done"}
        /\ error = <<InvalidJsonError(generationType)>>
        /\ generationType = "prospect_analysis" =>
             (analysis = <<>> /\ invocations["sequence_generation"] = 0)
        /\ result = <<>>
        /\ MessagesOf(sequenceId) = <<>>
        /\ L # <<>>
        /\ L[Len(L)].status = "success"
        /\ L[Len(L)].raw_response = content
        /\ pc = "done" => (Status = "failed" /\ outcome.kind = "threw" /\ outcome.error = error)

C13_Witness ==
  /\ content = <<Garbage>>
  /\ generationType = "sequence_generation"
  /\ pc = "done"

\* C14 as stated: every Sequence that has left pending has at least one
\* ledger attempt for each of the two phases.
C14_AttemptPerPhaseOnceLeft ==
  Status \in {"generating", "completed", "failed"} =>
    \A p \in Phases : Len(LedgerOf(sequenceId, p)) >= 1

\* C14 (amended): every Sequence in a terminal status has at least one
\* ledger attempt for the profile-analysis phase, and every Sequence that
\* was completed has, for each of the two phases, at least one attempt and
\* exactly one success; a Sequence that is still generating, or that failed
\* in pass 1, has no attempt for sequence generation.
C14_AttemptPerPhaseReached ==
  /\ Status \in Terminal => Len(LedgerOf(sequenceId, "prospect_analysis")) >= 1
  /\ (Status = "completed" \/ pc = "respond" \/ outcome.kind = "returned") =>
       \A p \in Phases :
         /\ Len(LedgerOf(sequenceId, p)) >= 1
         /\ Successes(LedgerOf(sequenceId, p)) = 1
  /\ (Status \in Terminal /\ analysis = <<>>) => LedgerOf(sequenceId, "sequence_generation") = <<>>
  /\ LedgerOf(sequenceId, "sequence_generation") # <<>> =>
       Successes(LedgerOf(sequenceId, "prospect_analysis")) = 1

C14_Witness ==
  /\ Status = "failed"
  /\ Len(LedgerOf(sequenceId, "prospect_analysis")) = 3
  /\ LedgerOf(sequenceId, "sequence_generation") = <<>>

\* C15: a pre-flight failure (unknown tov_config_id, or neither tov_config
\* nor tov_config_id) is thrown to the caller at once, without retry, and
\* leaves the Sequence, Message and ledger tables unchanged: no Sequence row,
\* no model call, no attempt.
C15_PreflightLeavesNoTrace ==
  input.tov \in {"id_missing", "none"} =>
    /\ message_sequences = <<>>
    /\ sequence_messages = <<>>
    /\ ai_generations = <<>>
    /\ \A p \in Phases : invocations[p] = 0
    /\ exPc = "idle"
    /\ pc \in {"resolve", "done"}
    /\ pc = "done" =>
         /\ outcome.kind = "threw"
         /\ outcome.error[1].name = "AppError"
         /\ outcome.error[1].statusCode = IF input.tov = "id_missing" THEN 404 ELSE 400

C15_Witness ==
  /\ input.tov = "none"
  /\ pc = "done"
  /\ outcome.kind = "threw"

\* The raw text of the successful ledger row of a phase.
ReturnedText(p) ==
  SelectSeq(LedgerOf(sequenceId, p), LAMBDA g : g.status = "success")[1].raw_response[1]

\* C16: when both model calls succeed on their first attempt with well-formed
\* JSON and pass 2 returns a messages array of 3 elements with steps 1,2,3, a
\* 3-step request ends completed, with exactly 3 Message rows with steps
\* 1,2,3 in order and types connection_request, follow_up_value, direct_ask,
\* and with at least 2 ledger attempts, exactly one success per phase.
C16_ThreeStepHappyPath ==
  (/\ pc = "done"
   /\ input.sequence_length = 3
   /\ \A p \in Phases : outcomes[p] = <<"ok">>
   /\ \A p \in Phases : ReturnedText(p).wrap = "plain"
   /\ ReturnedText("sequence_generation").value.m = "array"
   /\ [i \in 1..Len(ReturnedText("sequence_generation").value.messages) |->
         ReturnedText("sequence_generation").value.messages[i].step_number] = <<<<1>>, <<2>>, <<3>>>>) =>
     LET rows == MessagesOf(sequenceId)
     IN /\ Status = "completed"
        /\ outcome.kind = "returned"
        /\ [i \in 1..Len(rows) |-> rows[i].step_number] = <<1, 2, 3>>
        /\ [i \in 1..Len(rows) |-> rows[i].message_type] = getMessageTypes(3)
        /\ Len(ai_generations) >= 2
        /\ \A p \in Phases : Successes(LedgerOf(sequenceId, p)) = 1

Returned(fn) == call.fn = fn /\ ret # <<>>

\* The tier the thresholds 0.3 and 0.7 assign to a value (in hundredths).
ThresholdTier(value) ==
  CHOOSE t \in Tiers :
    /\ t = "low" <=> value <= 30
    /\ t = "medium" <=> (30 < value /\ value <= 70)
    /\ t = "high" <=> value > 70

\* C17: getTier gives low for a value <= 0.3, medium for 0.3 < value <= 0.7
\* and high for a value > 0.7; translateTov's result is fixed by its input:
\* it is the text made of the paragraphs of these tiers.
C17_TierThresholds ==
  /\ Returned("getTier") => ret[1] = ThresholdTier(call.arg)
  /\ Returned("translateTov") =>
       LET a == call.arg
       IN ret[1] = join(<<formalityMap[ThresholdTier(a.formality)],
                          warmthMap[ThresholdTier(a.warmth)],
                          directnessMap[ThresholdTier(a.directness)]>>
                        \o (IF a.humor = <<>> THEN <<>> ELSE <<humorMap[ThresholdTier(a.humor[1])]>>)
                        \o (IF a.enthusiasm = <<>> THEN <<>>
                            ELSE <<enthusiasmMap[ThresholdTier(a.enthusiasm[1])]>>)
                        \o (IF a.custom_instructions \in {<<>>, <<"">>} THEN <<>>
                            ELSE <<"Additional instructions: " \o a.custom_instructions[1]>>),
                        "\n\n")

C17_Witness ==
  /\ Returned("getTier")
  /\ call.arg = 30
  /\ ret = <<"low">>

\* The texts translateTov can return for params when the paragraph of the
\* additional instructions is `custom`: one paragraph of each mandatory axis,
\* one of humor and one of enthusiasm exactly when supplied, then custom, in
\* this order, joined by blank lines.
Layouts(a, custom) ==
  {join(<<formalityMap[f], warmthMap[w], directnessMap[d]>>
        \o (IF a.humor = <<>> THEN <<>> ELSE <<humorMap[h]>>)
        \o (IF a.enthusiasm = <<>> THEN <<>> ELSE <<enthusiasmMap[e]>>)
        \o custom, "\n\n") :
     f \in Tiers, w \in Tiers, d \in Tiers, h \in Tiers, e \in Tiers}

\* C18 as stated: translateTov's output is the blank-line-joined paragraphs
\* formality, warmth, directness, humor (iff supplied), enthusiasm (iff
\* supplied), and the additional-instructions text, if present, verbatim as
\* the final paragraph.
C18_CustomVerbatim ==
  Returned("translateTov") => ret[1] \in Layouts(call.arg, call.arg.custom_instructions)

\* C18 (amended): translateTov's output is the blank-line-joined paragraphs
\* formality, warmth, directness, humor (iff supplied), enthusiasm (iff
\* supplied); additional instructions that are present and not empty add a
\* final paragraph "Additional instructions: " followed by the text verbatim;
\* absent or empty ones add nothing.
C18_CustomLabelled ==
  Returned("translateTov") =>
    ret[1] \in Layouts(call.arg,
                       IF call.arg.custom_instructions \in {<<>>, <<"">>} THEN <<>>
                       ELSE <<"Additional instructions: " \o call.arg.custom_instructions[1]>>)

C18_Witness ==
  /\ Returned("translateTov")
  /\ call.arg.humor = <<0>>
  /\ call.arg.enthusiasm = <<>>
  /\ call.arg.custom_instructions = <<"Mention our upcoming webinar.">>

\* C19: getMessageTypes(N) is [connection_request] for N <= 1,
\* [connection_request, follow_up_value] for N = 2, [connection_request,
\* follow_up_value, direct_ask] for N = 3, and for N > 3 the first N entries
\* of connection_request, follow_up_value, case_study, social_proof,
\* direct_ask, breakup.
C19_MessageTypeVocabulary ==
  Returned("getMessageTypes") =>
    LET N == call.arg
        canonical == <<"connection_request", "follow_up_value", "case_study",
                       "social_proof", "direct_ask", "breakup">>
    IN /\ N <= 1 => ret[1] = <<"connection_request">>
       /\ N = 2 => ret[1] = <<"connection_request", "follow_up_value">>
       /\ N = 3 => ret[1] = <<"connection_request", "follow_up_value", "direct_ask">>
       /\ N > 3 =>
            /\ Len(ret[1]) = IF N < 6 THEN N ELSE 6
            /\ \A i \in 1..Len(ret[1]) : ret[1][i] = canonical[i]

C19_Witness ==
  /\ Returned("getMessageTypes")
  /\ call.arg = 5
  /\ Len(ret[1]) = 5

\* C20: for every raw text that is valid JSON, parseJSONFromLLM returns
\* exactly the value of the direct JSON parse, from step 1, so that no later
\* step (fence stripping, brace extraction, repair, truncation patching)
\* alters it.
C20_ValidJsonShortCircuits ==
  (Returned("parseJSONFromLLM") /\ parseJSON(call.arg) # <<>>) =>
    /\ ret[1].ok
    /\ ret[1].val = parseJSON(call.arg)[1]
    /\ ret[1].stage = 1

C20_Witness ==
  /\ Returned("parseJSONFromLLM")
  /\ call.arg = <<"[", "{", "}", "]">>
  /\ ret[1].val = <<"[", "{", "}", "]">>

Contains(s, tok) == \E i \in DOMAIN s : s[i] = tok

\* C21 as stated: for every raw text that contains no { and is not itself
\* valid JSON, parseJSONFromLLM signals a parse error rather than returning a
\* value (single quotes, square brackets, trailing commas or a fence
\* included).
C21_NoBraceFails ==
  (/\ Returned("parseJSONFromLLM")
   /\ ~Contains(call.arg, "{")
   /\ parseJSON(call.arg) = <<>>) => ~ret[1].ok

\* C21 (amended): a raw text that contains no { and is not itself valid JSON
\* is never answered by the brace extraction of step 3; it gets a parse
\* error when it also holds no code fence, no single quote, no control
\* character, no comma and no [ (prose around a scalar, for instance),
\* while a fenced JSON text, a single-quoted string, a trailing comma or an
\* unclosed [ can still be recovered by steps 2, 4 and 5.
C21_NoBraceFailsUnlessRepairable ==
  (/\ Returned("parseJSONFromLLM")
   /\ ~Contains(call.arg, "{")
   /\ parseJSON(call.arg) = <<>>) =>
     /\ ret[1].ok => ret[1].stage \in {2, 4, 5}
     /\ (\A tok \in {FENCE, SQ, CTRL, ",", "["} : ~Contains(call.arg, tok)) => ~ret[1].ok

C21_Witness ==
  /\ Returned("parseJSONFromLLM")
  /\ call.arg = <<"Sure", " ", "1">>
  /\ ~ret[1].ok

\* C22: for a raw text obtained by cutting a valid JSON object off
\* so that only closing brackets and braces are missing, parseJSONFromLLM
\* succeeds at step 5 and returns a value of the original top-level shape,
\* an object.
C22_TruncationRepaired ==
  (Returned("parseJSONFromLLM") /\ call.arg \in TruncatedObjects) =>
    /\ ret[1].ok
    /\ ret[1].stage = 5
    /\ ret[1].val[1] = "{"

RECURSIVE Total(_, _)
Total(L, column) ==
  IF L = <<>> THEN 0
  ELSE Total(SubSeq(L, 1, Len(L) - 1), column)
         + (IF L[Len(L)][column] = <<>> THEN 0 ELSE L[Len(L)][column][1])

\* The phase ran out of retries under the primary model.
PrimaryExhausted(p) ==
  /\ Len(outcomes[p]) >= MAX_RETRIES
  /\ \A i \in 1..MAX_RETRIES : outcomes[p][i] = "fail"

\* C23: the result returned for a terminal Sequence aggregates over all the
\* ledger attempts of that Sequence, failed ones counting as zero:
\* total_tokens and total_cost_usd are the sums of the rows' total_tokens and
\* estimated costs, models_used is exactly the set of the models in the
\* ledger, so that the fallback model appears iff some phase exhausted the
\* retries of the primary model.
C23_MetadataAggregatesLedger ==
  (response # <<>> /\ response[1].ok /\ Status \in Terminal) =>
    LET L == SelectSeq(ai_generations, LAMBDA g : g.sequence_id = sequenceId)
        meta == response[1].ai_metadata
        used == {meta.models_used[i] : i \in DOMAIN meta.models_used}
    IN /\ response[1].status = Status
       /\ meta.total_tokens = Total(L, "total_tokens")
       /\ meta.total_cost_usd = Total(L, "estimated_cost_usd")
       /\ used = Models(L)
       /\ Len(meta.models_used) = Cardinality(used)
       /\ FALLBACK_MODEL(variant) # PRIMARY_MODEL(variant) =>
            (FALLBACK_MODEL(variant) \in used <=> \E p \in Phases : PrimaryExhausted(p))

C23_Witness ==
  /\ response # <<>>
  /\ response[1].ok
  /\ Status = "failed"
  /\ Len(response[1].ai_metadata.models_used) = 2
  /\ response[1].ai_metadata.total_tokens = 120
  /\ Len(ai_generations) = 7

\* Model calls issued and not yet settled, over both phases.
InFlight ==
  (invocations["prospect_analysis"] - Len(outcomes["prospect_analysis"]))
    + (invocations["sequence_generation"] - Len(outcomes["sequence_generation"]))

\* C24: the pipeline of one generation is strictly sequential: at most one
\* model call is in flight; every settled call has its ledger row before
\* anything else happens; an attempt after the first of a model is issued only
\* after the previous attempt of that model failed, was logged and its backoff
\* elapsed; and no pass-2 attempt is issued or logged before pass 1 has its
\* one success row, as the last row of its phase, and its output was parsed.
C24_StrictlySequential ==
  /\ InFlight \in {0, 1}
  /\ InFlight = 1 <=> exPc = "inflight"
  /\ \A p \in Phases : Len(LedgerOf(sequenceId, p)) = Len(outcomes[p])
  /\ (exPc \in {"call", "inflight"} /\ attempt > 1) =>
       LET L == LedgerOf(sequenceId, generationType)
           own == SelectSeq(L, LAMBDA g : g.model = model)
           zs == sleeps[generationType]
       IN /\ Len(own) = attempt - 1
          /\ \A i \in DOMAIN own : own[i].status = "error"
          /\ L[Len(L)].model = model
          /\ zs # <<>>
          /\ zs[Len(zs)] = [attempt |-> attempt - 1, model |-> model,
                            ms |-> backoffMs(attempt - 1)]
  /\ (invocations["sequence_generation"] > 0
        \/ LedgerOf(sequenceId, "sequence_generation") # <<>>) =>
       LET L1 == LedgerOf(sequenceId, "prospect_analysis")
       IN /\ Successes(L1) = 1
          /\ L1[Len(L1)].status = "success"
          /\ invocations["prospect_analysis"] = Len(L1)
          /\ analysis # <<>>
          /\ analysis = ParseContent(variant, ReturnedText("prospect_analysis"))

\* The second attempt of pass 2 is in flight.
C24_Witness ==
  /\ exPc = "inflight"
  /\ generationType = "sequence_generation"
  /\ attempt = 2
  /\ invocations["prospect_analysis"] > 1

\* The generations in progress: the running one and the suspended ones.
Generations == {locals} \cup {parked[k] : k \in DOMAIN parked}

\* The rows of a table that belong to a Sequence.
RowsOf(tbl, id) == SelectSeq(tbl, LAMBDA r : r.sequence_id = id)

\* The rows of the Sequences of the suspended generations are what they were.
OthersUntouched ==
  \A k \in DOMAIN parked :
    LET o == parked[k].self
    IN /\ ExistsIn(message_sequences', o) = ExistsIn(message_sequences, o)
       /\ ExistsIn(message_sequences, o) =>
            RowIn(message_sequences', o) = RowIn(message_sequences, o)
       /\ RowsOf(sequence_messages', o) = RowsOf(sequence_messages, o)
       /\ RowsOf(ai_generations', o) = RowsOf(ai_generations, o)

\* C25: under any interleaving of two concurrent generations, every ledger
\* row and every Message row carries the id of the Sequence of the generation
\* that produced it (the ledger of a Sequence holds exactly the outcomes of
\* its own generation's model calls, its Message rows exactly the elements
\* its own generation has stored), and a step of one generation, whether a
\* failure, a retry or the write of a terminal status, leaves the row, the
\* status, the analysis, the messages and the ledger rows of every other
\* Sequence, and the locals of every other generation, as they were.
C25_GenerationsIsolated ==
  /\ [](/\ \A i \in DOMAIN ai_generations :
             \E g \in Generations : ai_generations[i].sequence_id = g.self
        /\ \A i \in DOMAIN sequence_messages :
             \E g \in Generations : sequence_messages[i].sequence_id = g.self
        /\ \A g \in Generations :
             /\ \A p \in Phases :
                  LET L == LedgerOf(g.self, p)
                  IN /\ Len(L) = Len(g.outcomes[p])
                     /\ \A i \in DOMAIN L :
                          (L[i].status = "success") = (g.outcomes[p][i] = "ok")
             /\ LET M == MessagesOf(g.self)
                IN /\ Len(M) = IF g.result = <<>> THEN 0 ELSE g.msgIdx - 1
                   /\ \A i \in DOMAIN M :
                        M[i].step_number = g.result[1].messages[i].step_number[1])
  /\ [][self' = self => (parked' = parked /\ OthersUntouched)]_vars

\* Two Sequences whose ledger rows interleave, one failed and one completed.
C25_Witness ==
  /\ StatusIn(message_sequences, "seq-1") = "failed"
  /\ StatusIn(message_sequences, "seq-2") = "completed"
  /\ MessagesOf("seq-2") # <<>>
  /\ \E i \in DOMAIN ai_generations :
       /\ i + 2 \in DOMAIN ai_generations
       /\ ai_generations[i].sequence_id = "seq-1"
       /\ ai_generations[i + 1].sequence_id = "seq-2"
       /\ ai_generations[i + 2].sequence_id = "seq-1"
       /\ ai_generations[i].status # "success"

\* C26: prospect resolution is keyed by the normalized URL: normalizing a
\* normalized URL gives it back; a resolution succeeds exactly when the URL
\* can be normalized and returns a stored row whose linkedin_url is the
\* normalized URL; two resolutions of URLs with the same normalized form
\* return the same prospect; and, in whatever order the requests issue their
\* resolutions, no two rows of prospects have the same linkedin_url.
C26_OneProspectPerNormalizedUrl ==
  /\ \A i \in DOMAIN resolutions :
       LET r == resolutions[i]
           n == normalizeLinkedInUrl(r.url)
       IN /\ (r.prospect # <<>>) = (n # <<>>)
          /\ n # <<>> =>
               /\ normalizeLinkedInUrl(n[1]) = n
               /\ r.prospect[1].linkedin_url = n[1]
               /\ \E k \in DOMAIN prospects : prospects[k] = r.prospect[1]
  /\ \A i, j \in DOMAIN resolutions :
       (/\ normalizeLinkedInUrl(resolutions[i].url) # <<>>
        /\ normalizeLinkedInUrl(resolutions[i].url) = normalizeLinkedInUrl(resolutions[j].url))
         => resolutions[i].prospect = resolutions[j].prospect
  /\ \A a, b \in DOMAIN prospects :
       a # b => prospects[a].linkedin_url # prospects[b].linkedin_url

\* Two different URLs of one profile were resolved to the one stored row.
C26_Witness ==
  /\ Len(resolutions) = 2
  /\ resolutions[1].url # resolutions[2].url
  /\ resolutions[1].url # normalizeLinkedInUrl(resolutions[1].url)[1]
  /\ resolutions[1].prospect # <<>>
  /\ resolutions[1].prospect = resolutions[2].prospect
  /\ Len(prospects) = 1

\* C27: once a model call succeeds the executor logs one success row, with
\* the token counts the API reported (zeros when it reported none), the cost
\* estimate of these counts, a latency and the raw response, and returns: a
\* phase has at most one success row, it is the last row of the phase, no
\* call of the phase is issued after it, and the rows of failed attempts
\* have no token counts and no cost.
C27_SuccessLoggedOnceAndLast ==
  \A p \in Phases :
    LET L == LedgerOf(sequenceId, p)
    IN /\ Successes(L) <= 1
       /\ \A i \in DOMAIN L :
            /\ (L[i].status = "success") = (outcomes[p][i] = "ok")
            /\ L[i].status = "success" =>
                 /\ i = Len(L)
                 /\ invocations[p] = Len(L)
                 /\ ~(generationType = p /\ exPc # "idle")
                 /\ L[i].prompt_tokens # <<>>
                 /\ L[i].completion_tokens # <<>>
                 /\ L[i].total_tokens # <<>>
                 /\ L[i].estimated_cost_usd =
                      <<estimateCost(variant, L[i].model, L[i].prompt_tokens[1],
                                     L[i].completion_tokens[1])>>
                 /\ L[i].latency_ms # <<>>
                 /\ L[i].raw_response # <<>>
            /\ L[i].status # "success" =>
                 /\ L[i].prompt_tokens = <<>>
                 /\ L[i].completion_tokens = <<>>
                 /\ L[i].total_tokens = <<>>
                 /\ L[i].estimated_cost_usd = <<>>

\* Pass 2 succeeded at its third attempt and the request is over.
C27_Witness ==
  /\ pc = "done"
  /\ Len(LedgerOf(sequenceId, "sequence_generation")) = 3
  /\ LedgerOf(sequenceId, "sequence_generation")[3].status = "success"
  /\ LedgerOf(sequenceId, "sequence_generation")[3].total_tokens = <<380>>

\* C28: the status of a failed attempt depends on its position only: the
\* first and the second failed attempt under a model are recorded as error
\* and the third, the last one the model is allowed, as timeout, whatever
\* the model call raised; a phase in which both models of the hosted
\* variant ran out is logged error, error, timeout, error, error, timeout.
C28_StatusByPosition ==
  \A p \in Phases :
    LET L == LedgerOf(sequenceId, p)
    IN /\ \A i \in DOMAIN L :
            L[i].status # "success" =>
              LET k == Cardinality({j \in 1..i : L[j].model = L[i].model})
              IN /\ k <= MAX_RETRIES
                 /\ L[i].status = IF k < MAX_RETRIES THEN "error" ELSE "timeout"
       /\ (variant = "hosted" /\ Len(L) = 2 * MAX_RETRIES /\ Successes(L) = 0) =>
            [i \in DOMAIN L |-> L[i].status]
              = <<"error", "error", "timeout", "error", "error", "timeout">>

\* Pass 1 ran both models out; the last call raised a server error, not a
\* timeout.
C28_Witness ==
  /\ variant = "hosted"
  /\ Status = "failed"
  /\ raised = <<"500 Internal Server Error">>
  /\ [i \in DOMAIN LedgerOf(sequenceId, "prospect_analysis") |->
        LedgerOf(sequenceId, "prospect_analysis")[i].status]
       = <<"error", "error", "timeout", "error", "error", "timeout">>

\* C29: when pass 2 returned a messages array of objects, the request ends
\* with one Message row per element, in array order, the row of an element
\* without step_number having its array index + 1 (its position counted
\* from 1) as step number, and with the Sequence completed.
C29_RowPerElement ==
  (/\ pc = "done"
   /\ result # <<>>
   /\ \A i \in DOMAIN result[1].messages :
        /\ result[1].messages[i].t = "object"
        /\ result[1].messages[i].message_type # <<>>) =>
    LET ms == result[1].messages
        M == MessagesOf(sequenceId)
    IN /\ Status = "completed"
       /\ Len(M) = Len(ms)
       /\ \A i \in DOMAIN M :
            M[i].step_number = IF ms[i].step_number = <<>> THEN i ELSE ms[i].step_number[1]

\* The properties of an analysis in normalized form: strings, arrays and a
\* seniority level of the vocabulary or "unknown".
Normalized(f) ==
  /\ f.professional_summary \in {"string", "empty"}
  /\ f.key_interests \in {"array", "emptyarray"}
  /\ f.seniority_level \in SeniorityLevels \cup {"unknown"}

\* C30: the analysis stored on the Sequence after pass 1 is an object in
\* normalized form (every array property an array, every string property a
\* string, an unrecognized seniority level stored as "unknown"), and it is
\* the value that pass 2 is given.
C30_StoredAnalysisNormalized ==
  (RowExists(sequenceId) /\ Row(sequenceId).prospect_analysis # <<>>) =>
    LET stored == JSONparse(Row(sequenceId).prospect_analysis[1])[1]
    IN /\ stored.t = "object"
       /\ Normalized(stored.fields)
       /\ invocations["sequence_generation"] > 0 => analysis[1] = stored

\* The rows of a ledger that were logged under a model.
RowsUnder(L, m) == SelectSeq(L, LAMBDA g : g.model = m)

\* C31: the executor always terminates and its attempts are bounded: at
\* most MAX_RETRIES calls and rows under any one model, at most 2 * MAX_RETRIES
\* per phase where the fallback model differs from the primary one and
\* MAX_RETRIES otherwise, hence at most 4 * MAX_RETRIES ledger rows per
\* Sequence; and the executor restarts under the fallback model at most
\* once per call: no row of the primary model follows a row of the fallback
\* model, and a fallback row exists only after MAX_RETRIES primary rows.
C31_ExecutorBoundedAndTerminates ==
  /\ [](/\ \A p \in Phases :
             LET L == LedgerOf(sequenceId, p)
                 perPhase == IF PRIMARY_MODEL(variant) # FALLBACK_MODEL(variant)
                               THEN 2 * MAX_RETRIES ELSE MAX_RETRIES
             IN /\ \A m \in Models(L) : Len(RowsUnder(L, m)) <= MAX_RETRIES
                /\ Len(L) <= perPhase
                /\ invocations[p] <= perPhase
                /\ attempt <= MAX_RETRIES
                /\ \A i, j \in DOMAIN L :
                     (i < j /\ L[i].model # PRIMARY_MODEL(variant)) =>
                       L[j].model # PRIMARY_MODEL(variant)
                /\ \A i \in DOMAIN L :
                     L[i].model # PRIMARY_MODEL(variant) =>
                       /\ i > MAX_RETRIES
                       /\ Statuses(SubSeq(L, 1, MAX_RETRIES)) = <<"error", "error", "timeout">>
        /\ Len(ai_generations) <= 4 * MAX_RETRIES)
  /\ (InExecutor("prospect_analysis") ~> ~InExecutor("prospect_analysis"))
  /\ (InExecutor("sequence_generation") ~> ~InExecutor("sequence_generation"))

\* Both phases took every attempt the two models allow.
C31_Witness ==
  /\ Len(ai_generations) = 4 * MAX_RETRIES
  /\ exPc = "idle"
  /\ pc = "done"

\* C32: for every requested step count N of the accepted range 1..10,
\* getMessageTypes(N) has exactly N entries, all of them distinct.
C32_VocabularyHasNEntries ==
  (Returned("getMessageTypes") /\ call.arg \in 1..10) =>
    /\ Len(ret[1]) = call.arg
    /\ \A i, j \in DOMAIN ret[1] : i # j => ret[1][i] # ret[1][j]

\* C33: a Sequence whose status is failed has no Message rows and no
\* overall_confidence: the messages are persisted all or none, also when an
\* error occurs while they are being inserted or after they were inserted.
C33_MessagesAllOrNothing ==
  (RowExists(sequenceId) /\ Row(sequenceId).status = "failed") =>
    /\ MessagesOf(sequenceId) = <<>>
    /\ Row(sequenceId).overall_confidence = <<>>

\* The generation is failing, or has failed, on the unusable answer of a phase.
Unusable(p) ==
  \/ (pc = "catch" /\ error = <<InvalidJsonError(p)>>)
  \/ (outcome.kind = "threw" /\ outcome.error = <<InvalidJsonError(p)>>)

\* C34: an answer that was received but cannot be parsed, or that lacks the
\* messages array, is not retried: its attempt is logged as success, it is
\* the last row and the last model call of its phase, no call of a later
\* phase is made, and the Sequence ends failed.
C34_UnusableAnswerNotRetried ==
  \A p \in Phases :
    Unusable(p) =>
      LET L == LedgerOf(sequenceId, p)
      IN /\ exPc = "idle"
         /\ L # <<>>
         /\ L[Len(L)].status = "success"
         /\ Successes(L) = 1
         /\ invocations[p] = Len(L)
         /\ p = "prospect_analysis" =>
              /\ invocations["sequence_generation"] = 0
              /\ LedgerOf(sequenceId, "sequence_generation") = <<>>
         /\ pc = "done" => Status = "failed"

\* A Sequence that failed although each of its two attempts succeeded.
C34_Witness ==
  /\ Status = "failed"
  /\ Unusable("sequence_generation")
  /\ Statuses(ai_generations) = <<"success", "success">>

C36_FallbackNotSticky ==
  \A p \in Phases :
    LET L == LedgerOf(sequenceId, p)
    IN /\ (InExecutor(p) /\ L = <<>>) =>
            /\ model = PRIMARY_MODEL(variant)
            /\ attempt = 1
       /\ L # <<>> =>
            /\ L[1].model = PRIMARY_MODEL(variant)
            /\ L[1].status \in {"success", "error"}

\* Pass 1 succeeded under the fallback model and pass 2 has called the
\* primary model.
C36_Witness ==
  LET L1 == LedgerOf(sequenceId, "prospect_analysis")
      L2 == LedgerOf(sequenceId, "sequence_generation")
  IN /\ L1 # <<>>
     /\ L1[Len(L1)].status = "success"
     /\ L1[Len(L1)].model = "gpt-4o"
     /\ L2 # <<>>
     /\ L2[1].model = "gpt-4o-mini"

\* The row of tov_configs that step 2 of the running generation read, as
\* the table holds it now: <<>> when it was deleted.
StoredNow == IF tovConfig = <<>> THEN <<>> ELSE selectTov(tov_configs, tovConfig[1].id)

\* C37: the tone instructions of pass 2 derive from the tone configuration
\* as it was read before the Sequence row was created: the configuration is
\* read from the table in a step in which no Sequence row of the generation
\* exists yet, the value read never changes afterwards, the instructions
\* given to generateMessages are translateTov of that value whatever the
\* tov-configs routes did to the table meanwhile, an update or a deletion
\* touches nothing of the generation, and a generation that throws after
\* its Sequence exists throws an AI error (502), never for its configuration.
C37_TovSnapshotForPass2 ==
  /\ [](tovInstructions # <<>> =>
          /\ tovConfig # <<>>
          /\ tovInstructions[1] = translateTov(tovConfig[1].params))
  /\ [][/\ tovConfig # <<>> => tovConfig' = tovConfig
        /\ (tovConfig = <<>> /\ tovConfig' # <<>>) =>
             /\ selectTov(tov_configs', tovConfig'[1].id) = tovConfig'
             /\ ~RowExists(sequenceId)
             /\ message_sequences' = message_sequences
        /\ (tov_configs' # tov_configs /\ tovConfig # <<>>) =>
             UNCHANGED <<pc, exPc, error, outcome, tovConfig, tovInstructions,
                         message_sequences, sequence_messages, ai_generations>>]_vars
  /\ []((outcome.kind = "threw" /\ RowExists(sequenceId)) =>
          /\ outcome.error[1].statusCode = 502
          /\ outcome.error # tovPreflightError("id_missing"))

\* Pass 2 has just been entered with the instructions of the configuration
\* read in step 2, while the stored configuration was updated or deleted
\* after it was read, during pass 1.
C37_Witness ==
  /\ pc = "await2"
  /\ exPc = "call"
  /\ LedgerOf(sequenceId, "sequence_generation") = <<>>
  /\ input.tov = "id_found"
  /\ StoredNow # tovConfig
  /\ tovStatus = 200
  /\ tovInstructions = <<translateTov(StoredTov)>>
  /\ StoredNow # <<>> => translateTov(StoredNow[1].params) # tovInstructions[1]

\* The text "{}".
EmptyObjectText == JSONstringify(JObject("absent", <<>>, <<>>))

\* The ledger row of a call that resolved with a response without content
\* (the response carries no usage either).
EmptyAnswer(g) == g.status = "success" /\ g.total_tokens = <<0>>

\* The last row of phase p of the running generation is such a row.
EndsEmpty(p) ==
  LET L == LedgerOf(sequenceId, p)
  IN L # <<>> /\ EmptyAnswer(L[Len(L)])

\* C38: a model call that resolves with empty or missing content is treated
\* as the text "{}": it is logged as success with "{}" as raw response and
\* the executor returns "{}"; in pass 1 the parse gives an empty analysis,
\* nothing is thrown, the analysis is stored as "{}" and pass 2 is entered;
\* in pass 2 the generation fails with the invalid-JSON error of pass 2
\* (there is no messages array), with no other attempt and no Message row.
C38_EmptyContentIsEmptyObject ==
  /\ \A k \in DOMAIN ai_generations :
       EmptyAnswer(ai_generations[k]) =>
         /\ ai_generations[k].raw_response = <<EmptyObjectText>>
         /\ \A j \in DOMAIN ai_generations :
              (j > k /\ ai_generations[j].sequence_id = ai_generations[k].sequence_id) =>
                ai_generations[j].generation_type # ai_generations[k].generation_type
  /\ (EndsEmpty("prospect_analysis") /\ pc = "parse1") => content = <<EmptyObjectText>>
  /\ (EndsEmpty("prospect_analysis") /\ pc = "store1") =>
       /\ analysis = <<JObject("absent", <<>>, <<>>)>>
       /\ error = <<>>
  /\ (EndsEmpty("prospect_analysis") /\ pc \notin {"parse1", "store1"}) =>
       /\ Row(sequenceId).prospect_analysis = <<EmptyObjectText>>
       /\ pc \in {"pass2", "await2", "parse2", "insert", "complete", "respond", "catch", "done"}
       /\ pc \in {"catch", "done"} => LedgerOf(sequenceId, "sequence_generation") # <<>>
  /\ (EndsEmpty("sequence_generation") /\ pc = "parse2") => content = <<EmptyObjectText>>
  /\ (EndsEmpty("sequence_generation") /\ pc # "parse2") =>
       /\ pc \in {"catch", "done"}
       /\ error = <<InvalidJsonError("sequence_generation")>>
       /\ MessagesOf(sequenceId) = <<>>
       /\ pc = "done" =>
            /\ outcome = [kind |-> "threw", error |-> <<InvalidJsonError("sequence_generation")>>]
            /\ Row(sequenceId).status = "failed"

\* Both passes were answered without content: the analysis "{}" is stored
\* and the generation has failed in pass 2.
C38_Witness ==
  /\ pc = "done"
  /\ EndsEmpty("prospect_analysis")
  /\ EndsEmpty("sequence_generation")
  /\ Statuses(ai_generations) = <<"success", "success">>
  /\ Row(sequenceId).prospect_analysis = <<EmptyObjectText>>
  /\ Row(sequenceId).status = "failed"

\* callOpenAI as a function of the outcomes of its model calls (ok: the call
\* resolved, fail: it rejected), taken in order: the statuses of the rows it
\* inserts, the backoff sleeps it starts and how it ends.  One step is one
\* iteration of the retry loop; fallbackStep tells whether the branch after
\* the loop that re-enters under FALLBACK_MODEL is there.
callOpenAI_start ==
  [model |-> PRIMARY_MODEL("hosted"), attempt |-> 1, statuses |-> <<>>, sleeps |-> <<>>,
   end |-> "running"]

callOpenAI_step(st, o, fallbackStep) ==
  IF st.end # "running" THEN st
  ELSE IF o = "ok"
    THEN [st EXCEPT !.statuses = Append(@, "success"), !.end = "returned"]
    ELSE LET logged == [st EXCEPT !.statuses = Append(@, attemptStatus(st.attempt))]
             after == IF fallbackStep THEN callOpenAI_afterLoop(st.model)
                      ELSE callOpenAI_afterLoop_noFallback(st.model)
         IN IF st.attempt < MAX_RETRIES
              THEN [logged EXCEPT !.sleeps = Append(@, backoffMs(st.attempt)),
                                  !.attempt = @ + 1]
              ELSE IF after = "fallback"
                THEN [logged EXCEPT !.model = FALLBACK_MODEL("hosted"), !.attempt = 1]
                ELSE [logged EXCEPT !.end = "threw"]

RECURSIVE callOpenAI_run(_, _, _)
callOpenAI_run(st, os, fallbackStep) ==
  IF os = <<>> THEN st
  ELSE callOpenAI_run(callOpenAI_step(st, os[1], fallbackStep), Tail(os), fallbackStep)

\* What the executor of phase p of the running generation has done so far:
\* the statuses of its attempt records in order, the backoff sleeps it has
\* started and whether it is running, has returned or has thrown.
ExecutorTrace(p) ==
  LET L == LedgerOf(sequenceId, p)
  IN [statuses |-> Statuses(L),
      sleeps |-> [i \in DOMAIN sleeps[p] |-> sleeps[p][i].ms]
                   \o (IF exPc = "sleeping" /\ generationType = p
                         THEN <<backoffMs(attempt)>> ELSE <<>>),
      end |-> IF L # <<>> /\ L[Len(L)].status = "success" THEN "returned"
              ELSE IF L = <<>> \/ InExecutor(p) THEN "running" ELSE "threw"]

TraceOf(st) == [statuses |-> st.statuses, sleeps |-> st.sleeps, end |-> st.end]

\* C39: the two executors implement the same retry policy: for every
\* sequence of model-call outcomes the self-hosted executor (callOllama) has
\* produced the attempt records (count, order, statuses), the backoff sleeps
\* and the success or failure that callOpenAI without its fallback step
\* produces for these outcomes; the function it is compared with is
\* callOpenAI's, as the hosted executor produces what the function gives
\* with the fallback step.
C39_SameRetryPolicy ==
  \A p \in Phases :
    /\ variant = "selfhosted" =>
         ExecutorTrace(p) = TraceOf(callOpenAI_run(callOpenAI_start, outcomes[p], FALSE))
    /\ variant = "hosted" =>
         ExecutorTrace(p) = TraceOf(callOpenAI_run(callOpenAI_start, outcomes[p], TRUE))

\* The self-hosted executor of pass 2 has failed three times and thrown
\* after pass 1 succeeded at its third attempt.
C39_Witness ==
  /\ variant = "selfhosted"
  /\ outcomes = [prospect_analysis |-> <<"fail", "fail", "ok">>,
                 sequence_generation |-> <<"fail", "fail", "fail">>]
  /\ ExecutorTrace("sequence_generation") =
       [statuses |-> <<"error", "error", "timeout">>, sleeps |-> <<2000, 4000>>, end |-> "threw"]
  /\ ExecutorTrace("prospect_analysis").end = "returned"
  /\ pc = "done"

====
